---------------------------- MODULE Spec2Model ----------------------------
(***************************************************************************)
(* Asset resolution of setup-mlir: the identifier normalizer               *)
(* (getPlatform / getArchitecture), the version validation of run(), the   *)
(* asset name codec (getMetadata / getVersionFromAssetName), the manifest  *)
(* lookup (getManifestEntry) and the resolver (getMLIRUrl / getZstdUrl).   *)
(*                                                                         *)
(* A string is a sequence of symbols.  A symbol is an indivisible chunk of *)
(* characters: decimal digits, hexadecimal letters, "." and "_" are always *)
(* single characters, the other symbols are whole words ("linux",          *)
(* "llvm-mlir", "X86").  Equality of sequences is equality of strings.     *)
(***************************************************************************)
EXTENDS Integers, Sequences, FiniteSets, TLC

VARIABLES
    manifest,   \* content of version-manifest.json: a sequence of ManifestEntry
    releases,   \* release source: tag -> sequence of assets of that release
    latest,     \* tag of the release "GET /releases/latest" answers with
    op,         \* the operation that was invoked ("idle" before any)
    args,       \* its arguments, with the process (platform, arch) it ran in
    result      \* its outcome: value or error, with the lookups and requests made

vars == <<manifest, releases, latest, op, args, result>>

(***************************************************************************)
(* Strings                                                                 *)
(***************************************************************************)
Digits == {"0", "1", "2", "3", "4", "5", "6", "7", "8", "9"}

LowerHexLetters == {"a", "b", "c", "d", "e", "f"}

UpperHexLetters == {"A", "B", "C", "D", "E", "F"}

\* String.prototype.toLowerCase on one symbol
LowerSym(c) ==
    CASE c = "A" -> "a" [] c = "B" -> "b" [] c = "C" -> "c"
      [] c = "D" -> "d" [] c = "E" -> "e" [] c = "F" -> "f"
      [] c = "G" -> "g"
      [] c = "X86" -> "x86" [] c = "AArch64" -> "aarch64"
      [] c = "macOS" -> "macos" [] c = "Linux" -> "linux"
      [] c = "Windows" -> "windows" [] c = "HOST" -> "host"
      [] c = "ZSTD-" -> "zstd-"
      [] OTHER -> c

\* String.prototype.toLowerCase
ToLowerCase(s) == [i \in 1..Len(s) |-> LowerSym(s[i])]

\* String.prototype.startsWith
StartsWith(s, prefix) ==
    /\ Len(prefix) <= Len(s)
    /\ \A i \in 1..Len(prefix) : s[i] = prefix[i]

\* String.prototype.endsWith
EndsWith(s, suffix) ==
    /\ Len(suffix) <= Len(s)
    /\ \A i \in 1..Len(suffix) : s[Len(s) - Len(suffix) + i] = suffix[i]

\* String.prototype.includes
Includes(s, part) ==
    \E i \in 0..(Len(s) - Len(part)) : \A k \in 1..Len(part) : s[i + k] = part[k]

\* n copies of the symbol c
Rep(c, n) == [i \in 1..n |-> c]


(***************************************************************************)
(* Outcomes.  A thrown Error is a record with the place that threw it      *)
(* (kind) and its message; every outcome carries the manifest lookups      *)
(* (lookups) and the release-source requests (net) made on the way.        *)
(***************************************************************************)
NoValue == <<>>

Ok(v) == [ok |-> TRUE, value |-> v, kind |-> "none", message |-> <<>>]

Throw(k, msg) == [ok |-> FALSE, value |-> NoValue, kind |-> k, message |-> msg]

(***************************************************************************)
(* Identifier normalizer (platform.ts)                                     *)
(***************************************************************************)
\* process.platform and process.arch values a node process can report
ProcessPlatforms == {"linux", "darwin", "win32", "freebsd"}

ProcessArchs == {"x64", "arm64", "ia32"}

determinePlatform(proc) ==
    IF proc.platform = "linux" THEN Ok(<<"linux">>)
    ELSE IF proc.platform = "darwin" THEN Ok(<<"macOS">>)
    ELSE IF proc.platform = "win32" THEN Ok(<<"windows">>)
    ELSE Throw("UnsupportedPlatform", <<"Unsupported platform: ", proc.platform>>)

determineArchitecture(proc) ==
    IF proc.arch = "x64" THEN Ok(<<"X86">>)
    ELSE IF proc.arch = "arm64" THEN Ok(<<"AArch64">>)
    ELSE Throw("UnsupportedArchitecture", <<"Unsupported architecture: ", proc.arch>>)

\* a faulty variant of getPlatform: the comparison made case-insensitive
getPlatformAnyCase(platform, proc) ==
    IF ToLowerCase(platform) \notin {<<"host">>, <<"linux">>, <<"macos">>, <<"windows">>}
    THEN Throw("InvalidPlatform",
               <<"Invalid platform: ">> \o platform
                 \o <<". Expected ", "linux", ", ", "macOS", ", or ", "windows", ".">>)
    ELSE IF ToLowerCase(platform) = <<"host">> THEN determinePlatform(proc)
    ELSE Ok(platform)

getPlatform(platform, proc) ==
    IF /\ platform # <<"host">>
       /\ platform # <<"linux">>
       /\ platform # <<"macOS">>
       /\ platform # <<"windows">>
    THEN Throw("InvalidPlatform",
               <<"Invalid platform: ">> \o platform
                 \o <<". Expected ", "linux", ", ", "macOS", ", or ", "windows", ".">>)
    ELSE IF platform = <<"host">> THEN determinePlatform(proc)
    ELSE Ok(platform)

\* a faulty variant of getArchitecture: "host" is checked but not resolved
getArchitectureKeepHost(architecture, proc) ==
    IF /\ architecture # <<"host">>
       /\ architecture # <<"X86">>
       /\ architecture # <<"AArch64">>
    THEN Throw("InvalidArchitecture",
               <<"Invalid architecture: ">> \o architecture
                 \o <<". Expected ", "X86", " or ", "AArch64", ".">>)
    ELSE Ok(architecture)

getArchitecture(architecture, proc) ==
    IF /\ architecture # <<"host">>
       /\ architecture # <<"X86">>
       /\ architecture # <<"AArch64">>
    THEN Throw("InvalidArchitecture",
               <<"Invalid architecture: ">> \o architecture
                 \o <<". Expected ", "X86", " or ", "AArch64", ".">>)
    ELSE IF architecture = <<"host">> THEN determineArchitecture(proc)
    ELSE Ok(architecture)

(***************************************************************************)
(* Version validation of run() (index.ts)                                  *)
(***************************************************************************)
MinHashLen == 7

MaxHashLen == 40

\* One step of the automaton of /^\d+\.\d+\.\d+$/: states 0, 2, 4 expect the
\* first digit of a group, 1, 3, 5 are inside a group, 6 is the dead state.
VersionTagStep(q, c) ==
    IF q \in {0, 2, 4} THEN (IF c \in Digits THEN q + 1 ELSE 6)
    ELSE IF q \in {1, 3} THEN (IF c \in Digits THEN q ELSE IF c = "." THEN q + 1 ELSE 6)
    ELSE IF q = 5 THEN (IF c \in Digits THEN 5 ELSE 6)
    ELSE 6

\* a faulty variant of isVersionTag: a pattern that lost its "$" anchor
isVersionTagUnanchored(v) ==
    \E n \in 0..Len(v) :
        LET run[i \in 0..n] == IF i = 0 THEN 0 ELSE VersionTagStep(run[i - 1], v[i])
        IN  run[n] = 5

\* RegExp("^\\d+\\.\\d+\\.\\d+$").test(v)
isVersionTag(v) ==
    LET run[i \in 0..Len(v)] == IF i = 0 THEN 0 ELSE VersionTagStep(run[i - 1], v[i])
    IN  run[Len(v)] = 5

\* [0-9a-f] under the "i" flag
IsHexSym(c) == LowerSym(c) \in (Digits \cup LowerHexLetters)

\* RegExp("^[0-9a-f]{7,40}$", "i").test(v): the quantifier consumes hex
\* symbols greedily, at most MaxHashLen of them, and "$" needs the end.
isCommitHash(v) ==
    LET most  == IF Len(v) < MaxHashLen THEN Len(v) ELSE MaxHashLen
        runs  == {k \in 0..most : \A j \in 1..k : IsHexSym(v[j])}
        eaten == CHOOSE k \in runs : \A m \in runs : m <= k
    IN  eaten >= MinHashLen /\ eaten = Len(v)

\* lines 170-177 of run(): the version check
validateVersion(llvm_version) ==
    IF ~isVersionTag(llvm_version) /\ ~isCommitHash(llvm_version)
    THEN Throw("InvalidVersion",
               <<"Invalid LLVM version: ">> \o llvm_version
                 \o <<". Expected format: X.Y.Z or a commit hash (minimum 7 characters).">>)
    ELSE Ok(llvm_version)

(***************************************************************************)
(* Asset name codec (manifest.ts)                                          *)
(***************************************************************************)
\* the positions x of s with s[x] = "_"
UnderscoresOf(s) == {x \in 1..Len(s) : s[x] = "_"}

\* The matches of /llvm-mlir_(.+?)_(.+?)_(.+)_(X86|AArch64)(_debug)?\./i in s:
\* i is where "llvm-mlir" stands, u1 < u2 < u3 are the underscores that end
\* groups 1, 2 and 3 (every group holds at least one symbol), the symbol
\* after u3 is the architecture token, then "_debug" or nothing, then ".".
MetadataMatches(s) ==
    LET U == UnderscoresOf(s)
        I == {i \in 1..Len(s) : LowerSym(s[i]) = "llvm-mlir"}
        E == {u \in U : u + 2 <= Len(s) /\ LowerSym(s[u + 1]) \in {"x86", "aarch64"}}
    IN  {m \in [i : I, u1 : U, u2 : U, u3 : E] :
            /\ LowerSym(s[m.i]) = "llvm-mlir"
            /\ (m.i + 1) \in U
            /\ m.u1 > m.i + 2
            /\ m.u2 > m.u1 + 1
            /\ m.u3 > m.u2 + 1
            /\ m.u3 + 2 <= Len(s)
            /\ LowerSym(s[m.u3 + 1]) \in {"x86", "aarch64"}
            /\ \/ s[m.u3 + 2] = "."
               \/ /\ m.u3 + 4 <= Len(s)
                  /\ s[m.u3 + 2] = "_"
                  /\ LowerSym(s[m.u3 + 3]) = "debug"
                  /\ s[m.u3 + 4] = "."}

\* The match a backtracking engine reports: the leftmost start, the lazy
\* groups 1 and 2 as short as possible, the greedy group 3 as long as possible.
MetadataPrefers(m, n) ==
    \/ m.i < n.i
    \/ m.i = n.i /\ m.u1 < n.u1
    \/ m.i = n.i /\ m.u1 = n.u1 /\ m.u2 < n.u2
    \/ m.i = n.i /\ m.u1 = n.u1 /\ m.u2 = n.u2 /\ m.u3 >= n.u3

MetadataMatch(s) ==
    LET M == MetadataMatches(s)
    IN  CHOOSE m \in M : \A n \in M : MetadataPrefers(m, n)

\* a faulty variant of getMetadata: group 3 (the OS label) returned as the
\* architecture, as the first getPlatform of update-version-manifest.ts did
getMetadataGroup3(assetName) ==
    IF MetadataMatches(assetName) = {}
    THEN Throw("NoPlatformInName",
               <<"Could not extract platform from asset name: ">> \o assetName)
    ELSE LET m == MetadataMatch(assetName)
         IN  Ok([platform     |-> SubSeq(assetName, m.u1 + 1, m.u2 - 1),
                 architecture |-> SubSeq(assetName, m.u2 + 1, m.u3 - 1),
                 debug        |-> assetName[m.u3 + 2] = "_"])

\* getMetadata: [platformMatch[2], platformMatch[4], Boolean(platformMatch[5])]
getMetadata(assetName) ==
    IF MetadataMatches(assetName) = {}
    THEN Throw("NoPlatformInName",
               <<"Could not extract platform from asset name: ">> \o assetName)
    ELSE LET m == MetadataMatch(assetName)
         IN  Ok([platform     |-> SubSeq(assetName, m.u1 + 1, m.u2 - 1),
                 architecture |-> <<assetName[m.u3 + 1]>>,
                 debug        |-> assetName[m.u3 + 2] = "_"])

\* The matches of /llvm-mlir_llvmorg-(\d+\.\d+\.\d+)_/i: the digit groups
\* are delimited by non-digits, so the end j of the capture is unique per i.
VersionMatches(s) ==
    {m \in [i : {i \in 1..Len(s) : LowerSym(s[i]) = "llvm-mlir"},
            j : {j \in 1..Len(s) : j + 1 <= Len(s) /\ s[j + 1] = "_"}] :
        /\ LowerSym(s[m.i]) = "llvm-mlir"
        /\ m.i + 3 <= m.j
        /\ m.j + 1 <= Len(s)
        /\ s[m.i + 1] = "_"
        /\ LowerSym(s[m.i + 2]) = "llvmorg-"
        /\ isVersionTag(SubSeq(s, m.i + 3, m.j))
        /\ s[m.j + 1] = "_"}

\* The matches of /llvm-mlir_([0-9a-f]{7,40})_/i
HashMatches(s) ==
    {m \in [i : {i \in 1..Len(s) : LowerSym(s[i]) = "llvm-mlir"},
            j : {j \in 1..Len(s) : j + 1 <= Len(s) /\ s[j + 1] = "_"}] :
        /\ LowerSym(s[m.i]) = "llvm-mlir"
        /\ m.j + 1 <= Len(s)
        /\ s[m.i + 1] = "_"
        /\ m.j - (m.i + 1) >= MinHashLen
        /\ m.j - (m.i + 1) <= MaxHashLen
        /\ \A k \in (m.i + 2)..m.j : IsHexSym(s[k])
        /\ s[m.j + 1] = "_"}

Leftmost(M) == CHOOSE m \in M : \A n \in M : m.i <= n.i

getVersionFromAssetName(assetName) ==
    IF VersionMatches(assetName) # {}
    THEN LET m == Leftmost(VersionMatches(assetName))
         IN  Ok(SubSeq(assetName, m.i + 3, m.j))
    ELSE IF HashMatches(assetName) # {}
    THEN LET m == Leftmost(HashMatches(assetName))
         IN  Ok(SubSeq(assetName, m.i + 2, m.j))
    ELSE Throw("NoVersionInName",
               <<"Could not extract version from asset name: ">> \o assetName)

(***************************************************************************)
(* Releases and manifest entries                                           *)
(***************************************************************************)
\* https://github.com/<owner>/<repo>/releases/download/<tag>/<name>
DownloadUrl(tag, name) == [tag |-> tag, name |-> name]

\* https://github.com/<owner>/<repo>/releases/tag/<tag>
ReleaseUrl(tag) == [release |-> tag]

\* a release asset: {name, browser_download_url}
Asset(tag, name) == [name |-> name, browser_download_url |-> DownloadUrl(tag, name)]

\* a faulty variant of ManifestEntryOf: the platform and the architecture as
\* the asset name spells them
ManifestEntryVerbatim(tag, asset) ==
    LET meta    == getMetadata(asset.name).value
        version == getVersionFromAssetName(asset.name).value
    IN  [architecture |-> meta.architecture,
         asset_name   |-> asset.name,
         debug        |-> meta.debug,
         download_url |-> asset.browser_download_url,
         platform     |-> meta.platform,
         release_url  |-> [release |-> tag],
         tag          |-> tag,
         version      |-> version]

\* the entry updateManifest pushes for one "llvm-mlir" asset of a release
\* (both parses succeed on the asset names used here)
ManifestEntryOf(tag, asset) ==
    LET meta    == getMetadata(asset.name).value
        version == getVersionFromAssetName(asset.name).value
    IN  [architecture |-> ToLowerCase(meta.architecture),
         asset_name   |-> asset.name,
         debug        |-> meta.debug,
         download_url |-> asset.browser_download_url,
         platform     |-> ToLowerCase(meta.platform),
         release_url  |-> ReleaseUrl(tag),
         tag          |-> tag,
         version      |-> version]

(***************************************************************************)
(* Manifest lookup and companion matcher (download.ts)                     *)
(***************************************************************************)
\* the predicate of manifest.find in getManifestEntry
EntryMatches(entry, version, platform, architecture, debug) ==
    /\ StartsWith(entry.version, version)
    /\ entry.platform = ToLowerCase(platform)
    /\ entry.architecture = ToLowerCase(architecture)
    /\ entry.debug = debug

\* a faulty variant of FindEntry: the last entry that matches
FindEntryLast(m, version, platform, architecture, debug) ==
    LET hits == {i \in 1..Len(m) : EntryMatches(m[i], version, platform, architecture, debug)}
    IN  IF hits = {} THEN 0 ELSE CHOOSE i \in hits : \A j \in hits : i >= j

\* Array.prototype.find: the index of the first entry that matches, 0 if none
FindEntry(m, version, platform, architecture, debug) ==
    LET hits == {i \in 1..Len(m) : EntryMatches(m[i], version, platform, architecture, debug)}
    IN  IF hits = {} THEN 0 ELSE CHOOSE i \in hits : \A j \in hits : i <= j

\* a faulty variant of getManifestEntry: the newest entry of the manifest
\* when none matches
getManifestEntryFallback(m, version, platform, architecture, debug) ==
    LET i == FindEntry(m, version, platform, architecture, debug)
    IN  IF i # 0 THEN Ok(m[i])
        ELSE IF m # <<>> THEN Ok(m[1])
        ELSE Throw("NoArchive",
                   <<"No ">> \o architecture \o <<" ">> \o platform
                     \o (IF debug THEN <<" (debug)">> ELSE <<>>)
                     \o <<" archive found for LLVM ">> \o version \o <<".">>)

getManifestEntry(m, version, platform, architecture, debug) ==
    LET i == FindEntry(m, version, platform, architecture, debug)
    IN  IF i = 0
        THEN Throw("NoArchive",
                   <<"No ">> \o architecture \o <<" ">> \o platform
                     \o (IF debug THEN <<" (debug)">> ELSE <<>>)
                     \o <<" archive found for LLVM ">> \o version \o <<".">>)
        ELSE Ok(m[i])

\* [A-Za-z0-9._-]: every symbol of the model but the ones listed here
NonClassSyms == {"+", " ", "~"}

IsClassRun(s, from, to) ==
    /\ from <= to
    /\ \A k \in from..to : s[k] \notin NonClassSyms

\* s[from .. from + Len(lit) - 1] equals lit, ignoring case
LitAt(s, from, lit) ==
    /\ from + Len(lit) - 1 <= Len(s)
    /\ \A k \in 1..Len(lit) : LowerSym(s[from + k - 1]) = LowerSym(lit[k])

\* the symbols of one character (none of them is a line terminator)
OneCharSyms ==
    Digits \cup LowerHexLetters \cup UpperHexLetters
      \cup {".", "_", "-", "+", " ", "~", "g", "G", "v"}

\* ${extension} in the pattern: the extension is put into the RegExp as it
\* is, so the "." of "tar.gz" stands for any one character
ExtensionAt(s, from, extension) ==
    /\ from + Len(extension) - 1 <= Len(s)
    /\ \A k \in 1..Len(extension) :
          IF extension[k] = "."
          THEN s[from + k - 1] \in OneCharSyms
          ELSE LowerSym(s[from + k - 1]) = LowerSym(extension[k])

ZstdExtension(platform) ==
    IF platform = <<"windows">> THEN <<"zip">> ELSE <<"tar", ".", "gz">>

\* pattern.test(name) for
\* ^zstd-[A-Za-z0-9._-]+_${platform}_[A-Za-z0-9._-]+_${architecture}\.${extension}$
\* under the "i" flag: u is the underscore before the platform, w the one
\* before the architecture.  The "." before the extension is escaped, the
\* one inside the extension is not.
ZstdPatternTest(name, platform, architecture, extension) ==
    \E u, w \in UnderscoresOf(name) :
        /\ LitAt(name, 1, <<"zstd-">>)
        /\ IsClassRun(name, 2, u - 1)
        /\ LitAt(name, u + 1, platform)
        /\ LitAt(name, u + 1 + Len(platform), <<"_">>)
        /\ IsClassRun(name, u + 2 + Len(platform), w - 1)
        /\ LitAt(name, w + 1, architecture)
        /\ LitAt(name, w + 1 + Len(architecture), <<".">>)
        /\ ExtensionAt(name, w + 2 + Len(architecture), extension)
        /\ Len(name) = w + 1 + Len(architecture) + Len(extension)

\* a faulty variant of getZstdAsset: the first zstd asset of the architecture,
\* whatever its platform and extension
getZstdAssetAnyPlatform(assets, platform, architecture) ==
    LET hits == {i \in 1..Len(assets) :
                    /\ LitAt(assets[i].name, 1, <<"zstd-">>)
                    /\ Includes(ToLowerCase(assets[i].name), ToLowerCase(architecture))}
    IN  IF hits = {} THEN 0 ELSE CHOOSE i \in hits : \A j \in hits : i <= j

\* getZstdAsset: the index in assets of the first match, 0 if none
getZstdAsset(assets, platform, architecture) ==
    LET lowered   == ToLowerCase(platform)
        extension == ZstdExtension(lowered)
        hits == {i \in 1..Len(assets) :
                    ZstdPatternTest(assets[i].name, lowered, architecture, extension)}
    IN  IF hits = {} THEN 0 ELSE CHOOSE i \in hits : \A j \in hits : i <= j

\* tag.match(/^\d{4}\.\d{2}\.\d{2}$/)
isDateTag(tag) ==
    /\ Len(tag) = 10
    /\ \A k \in 1..10 : IF k \in {5, 8} THEN tag[k] = "." ELSE tag[k] \in Digits

(***************************************************************************)
(* Resolver (download.ts).  env is the world a call runs in: the manifest  *)
(* file, the release source and the process.                               *)
(***************************************************************************)
\* an outcome r together with the manifest lookups and the requests made
Outcome(r, lookups, net) ==
    [ok |-> r.ok, value |-> r.value, kind |-> r.kind, message |-> r.message,
     lookups |-> lookups, net |-> net]

\* one call of getManifestEntry, as it is recorded in lookups
LookupOf(version, platform, architecture, debug) ==
    [version |-> version, platform |-> platform,
     architecture |-> architecture, debug |-> debug]

ByTag(tag) == [request |-> "GET /releases/tags/{tag}", tag |-> tag]

Latest == [request |-> "GET /releases/latest", tag |-> <<>>]

\* a faulty variant of getMLIRUrl: the companion's habit of asking for the
\* release variant, whatever the caller asked for
getMLIRUrlNoDebug(env, version, platform, architecture, debug) ==
    LET p == getPlatform(platform, env.proc)
        a == getArchitecture(architecture, env.proc)
    IN  IF ~p.ok THEN Outcome(p, <<>>, <<>>)
        ELSE IF ~a.ok THEN Outcome(a, <<>>, <<>>)
        ELSE LET e == getManifestEntry(env.manifest, version, p.value, a.value, FALSE)
                 looked == <<LookupOf(version, p.value, a.value, FALSE)>>
             IN  IF ~e.ok THEN Outcome(e, looked, <<>>)
                 ELSE Outcome(Ok([url |-> e.value.download_url, name |-> e.value.asset_name]),
                              looked, <<>>)

getMLIRUrl(env, version, platform, architecture, debug) ==
    LET p == getPlatform(platform, env.proc)
        a == getArchitecture(architecture, env.proc)
    IN  IF ~p.ok THEN Outcome(p, <<>>, <<>>)
        ELSE IF ~a.ok THEN Outcome(a, <<>>, <<>>)
        ELSE LET e == getManifestEntry(env.manifest, version, p.value, a.value, debug)
                 looked == <<LookupOf(version, p.value, a.value, debug)>>
             IN  IF ~e.ok THEN Outcome(e, looked, <<>>)
                 ELSE Outcome(Ok([url |-> e.value.download_url, name |-> e.value.asset_name]),
                              looked, <<>>)

\* a faulty variant of ZstdOfEntry: the entry's own release is the only one asked
ZstdOfEntryOwnOnly(env, entry, platform, architecture, looked) ==
    IF ~isDateTag(entry.tag)
    THEN Outcome(Throw("InvalidTag", <<"Invalid tag in manifest: ">> \o entry.tag),
                 looked, <<>>)
    ELSE IF ~env.releases[entry.tag].exists
    THEN Outcome(Throw("RequestError", <<"Not Found">>), looked, <<ByTag(entry.tag)>>)
    ELSE
    LET own == env.releases[entry.tag].assets
        i   == getZstdAsset(own, platform, architecture)
    IN  IF i # 0
        THEN Outcome(Ok([url |-> own[i].browser_download_url, name |-> own[i].name]),
                     looked, <<ByTag(entry.tag)>>)
        ELSE Outcome(Throw("NoZstd",
                           <<"No zstd binary found for ">> \o architecture
                             \o <<" ">> \o platform \o <<".">>),
                     looked, <<ByTag(entry.tag)>>)

\* lines 103-137 of getZstdUrl, once the manifest entry is found
ZstdOfEntry(env, entry, platform, architecture, looked) ==
    IF ~isDateTag(entry.tag)
    THEN Outcome(Throw("InvalidTag", <<"Invalid tag in manifest: ">> \o entry.tag),
                 looked, <<>>)
    ELSE IF ~env.releases[entry.tag].exists
    THEN Outcome(Throw("RequestError", <<"Not Found">>), looked, <<ByTag(entry.tag)>>)
    ELSE
    LET own    == env.releases[entry.tag].assets
        i      == getZstdAsset(own, platform, architecture)
        newest == env.releases[env.latest].assets
        j      == getZstdAsset(newest, platform, architecture)
    IN  IF i # 0
        THEN Outcome(Ok([url |-> own[i].browser_download_url, name |-> own[i].name]),
                     looked, <<ByTag(entry.tag)>>)
        ELSE IF j # 0
        THEN Outcome(Ok([url |-> newest[j].browser_download_url, name |-> newest[j].name]),
                     looked, <<ByTag(entry.tag), Latest>>)
        ELSE Outcome(Throw("NoZstd",
                           <<"No zstd binary found for ">> \o architecture
                             \o <<" ">> \o platform \o <<".">>),
                     looked, <<ByTag(entry.tag), Latest>>)

\* a faulty variant of getZstdUrl: the debug entry is taken when the manifest
\* holds no other
getZstdUrlAnyVariant(env, version, platform, architecture) ==
    LET p == getPlatform(platform, env.proc)
        a == getArchitecture(architecture, env.proc)
    IN  IF ~p.ok THEN Outcome(p, <<>>, <<>>)
        ELSE IF ~a.ok THEN Outcome(a, <<>>, <<>>)
        ELSE LET e == getManifestEntry(env.manifest, version, p.value, a.value, FALSE)
                 d == getManifestEntry(env.manifest, version, p.value, a.value, TRUE)
                 looked == <<LookupOf(version, p.value, a.value, FALSE)>>
             IN  IF e.ok THEN ZstdOfEntry(env, e.value, p.value, a.value, looked)
                 ELSE IF d.ok THEN ZstdOfEntry(env, d.value, p.value, a.value, looked)
                 ELSE Outcome(e, looked, <<>>)

getZstdUrl(env, version, platform, architecture) ==
    LET p == getPlatform(platform, env.proc)
        a == getArchitecture(architecture, env.proc)
    IN  IF ~p.ok THEN Outcome(p, <<>>, <<>>)
        ELSE IF ~a.ok THEN Outcome(a, <<>>, <<>>)
        ELSE LET e == getManifestEntry(env.manifest, version, p.value, a.value, FALSE)
                 looked == <<LookupOf(version, p.value, a.value, FALSE)>>
             IN  IF ~e.ok THEN Outcome(e, looked, <<>>)
                 ELSE ZstdOfEntry(env, e.value, p.value, a.value, looked)

(***************************************************************************)
(* Driver (index.ts): run() and its entry point                            *)
(***************************************************************************)
\* a faulty variant of runValidate: the version is left to the resolver
runValidateNoVersion(inputs, proc) ==
    LET isWindows == \/ inputs.platform = <<"windows">>
                     \/ inputs.platform = <<"host">> /\ proc.platform = "win32"
    IN  IF inputs.debug /\ ~isWindows
        THEN Throw("DebugNotWindows", <<"Debug builds are only available on Windows.">>)
        ELSE Ok(inputs.llvm_version)

\* a faulty variant of runValidate: the debug flag is accepted on every platform
runValidateDebugAnywhere(inputs, proc) == validateVersion(inputs.llvm_version)

\* lines 156-177 of run(): the debug check, then the version check
runValidate(inputs, proc) ==
    LET isWindows == \/ inputs.platform = <<"windows">>
                     \/ inputs.platform = <<"host">> /\ proc.platform = "win32"
    IN  IF inputs.debug /\ ~isWindows
        THEN Throw("DebugNotWindows", <<"Debug builds are only available on Windows.">>)
        ELSE validateVersion(inputs.llvm_version)

\* a faulty variant of RunState: the environment effects are made as soon as
\* the primary archive is resolved
RunStateExportsEarly(pc, r, zstd, mlir, effects, error, failed) ==
    [pc |-> pc, lookups |-> r.lookups, net |-> r.net, zstd |-> zstd, mlir |-> mlir,
     effects |-> IF mlir # NoValue THEN << <<"addPath", "bin">>,
                                           <<"exportVariable", "LLVM_DIR", "lib/cmake/llvm">>,
                                           <<"exportVariable", "MLIR_DIR", "lib/cmake/mlir">> >>
                 ELSE effects,
     error |-> error, failed |-> failed]

\* the state of one invocation of run(): where it stands, what it asked the
\* manifest and the network, what it resolved, the environment effects it
\* made, the error on its way to the entry point's catch, and what setFailed got
RunState(pc, r, zstd, mlir, effects, error, failed) ==
    [pc |-> pc, lookups |-> r.lookups, net |-> r.net, zstd |-> zstd, mlir |-> mlir,
     effects |-> effects, error |-> error, failed |-> failed]

NoLog == [lookups |-> <<>>, net |-> <<>>]

NoError == Ok(NoValue)

Download(url) == [request |-> "download", tag |-> url]

\* core.addPath and core.exportVariable of lines 254-265
ExportEffects ==
    << <<"addPath", "bin">>,
       <<"exportVariable", "LLVM_DIR", "lib/cmake/llvm">>,
       <<"exportVariable", "MLIR_DIR", "lib/cmake/mlir">> >>

(***************************************************************************)
(* The worlds and the requests the model explores                          *)
(***************************************************************************)
T1 == <<"2", "0", "2", "5", ".", "1", "2", ".", "1", "1">>

T2 == <<"2", "0", "2", "6", ".", "0", "1", ".", "0", "7">>

TOdd == <<"nightly">>

Tags == {T1, T2, TOdd}

V2118 == <<"2", "1", ".", "1", ".", "8">>

V21110 == <<"2", "1", ".", "1", ".", "1", "0">>

HashFull == <<"f", "8", "c", "b", "7", "9", "8", "7", "c", "6", "4", "d", "c", "f", "f", "b", "7", "2", "4", "1", "4", "a", "4", "0", "5", "6", "0", "0", "5", "5", "c", "b", "7", "1", "7", "d", "b", "f", "7", "4">>

TarZst == <<"tar", ".", "zst">>

\* llvm-mlir_<versionToken>_<platform>_<osLabel>_<archToken>[_debug].<ext>
BuildName(versionToken, platform, osLabel, archToken, debug, ext) ==
    <<"llvm-mlir", "_">> \o versionToken \o <<"_">> \o platform \o <<"_">> \o osLabel
      \o <<"_">> \o archToken \o (IF debug THEN <<"_", "debug">> ELSE <<>>)
      \o <<".">> \o ext

VersionToken(version) ==
    IF isVersionTag(version) THEN <<"llvmorg-">> \o version ELSE version

\* zstd-<toolVersion>_<platform>_<label>_<architecture>.<ext>
ZstdName(platform, label, archToken, ext) ==
    <<"zstd-", "1", ".", "5", ".", "7", "_">> \o platform \o <<"_">> \o label
      \o <<"_">> \o archToken \o <<".">> \o ext

PrimaryLinux ==
    BuildName(VersionToken(V2118), <<"linux">>, <<"x86", "_", "6", "4">>, <<"X86">>,
              FALSE, TarZst)

PrimaryWindowsDebug ==
    BuildName(VersionToken(V2118), <<"windows">>, <<"X64">>, <<"X86">>, TRUE, TarZst)

PrimaryMac ==
    BuildName(VersionToken(HashFull), <<"macos">>, <<"arm64">>, <<"AArch64">>, FALSE, TarZst)

TarGz == <<"tar", ".", "gz">>

ZstdLinuxX86 == ZstdName(<<"linux">>, <<"x86", "_", "6", "4">>, <<"X86">>, TarGz)

ZstdLinuxArm == ZstdName(<<"linux">>, <<"aarch64">>, <<"AArch64">>, TarGz)

ZstdLinuxX86Zip == ZstdName(<<"linux">>, <<"x86", "_", "6", "4">>, <<"X86">>, <<"zip">>)

ZstdMacArm == ZstdName(<<"macos">>, <<"arm64">>, <<"AArch64">>, TarGz)

ZstdWindowsX86 == ZstdName(<<"windows">>, <<"X64">>, <<"X86">>, <<"zip">>)

\* the rank of a symbol in the collation localeCompare uses, for the symbols
\* that occur in tags, platforms and architectures
SymRank(c) ==
    CASE c = "." -> 0
      [] c = "0" -> 1 [] c = "1" -> 2 [] c = "2" -> 3 [] c = "3" -> 4 [] c = "4" -> 5
      [] c = "5" -> 6 [] c = "6" -> 7 [] c = "7" -> 8 [] c = "8" -> 9 [] c = "9" -> 10
      [] c = "aarch64" -> 11 [] c = "linux" -> 12 [] c = "macos" -> 13
      [] c = "nightly" -> 14 [] c = "windows" -> 15 [] c = "x86" -> 16
      [] OTHER -> 17

\* a.localeCompare(b): negative, zero or positive
LocaleCompare(a, b) ==
    LET n     == IF Len(a) < Len(b) THEN Len(a) ELSE Len(b)
        diffs == {i \in 1..n : a[i] # b[i]}
    IN  IF diffs = {} THEN Len(a) - Len(b)
        ELSE LET i == CHOOSE i \in diffs : \A j \in diffs : i <= j
             IN  SymRank(a[i]) - SymRank(b[i])

\* a faulty variant of ManifestCompare: the tags in ascending order
ManifestCompareOldestFirst(a, b) ==
    IF a.tag # b.tag THEN LocaleCompare(a.tag, b.tag)
    ELSE IF a.platform # b.platform THEN LocaleCompare(a.platform, b.platform)
    ELSE LocaleCompare(a.architecture, b.architecture)

\* the comparator of manifest.sort in updateManifest
ManifestCompare(a, b) ==
    IF a.tag # b.tag THEN LocaleCompare(b.tag, a.tag)
    ELSE IF a.platform # b.platform THEN LocaleCompare(a.platform, b.platform)
    ELSE LocaleCompare(a.architecture, b.architecture)

\* m is in an order manifest.sort leaves behind
IsSortedManifest(m) ==
    \A i, j \in 1..Len(m) : i < j => ManifestCompare(m[i], m[j]) <= 0

\* the manifests updateManifest can have written from at most n assets of pool
Manifests(pool, n) ==
    {m \in UNION {[1..k -> pool] : k \in 0..n} : IsSortedManifest(m)}

MaxResolverManifest == 2

ResolverEntries ==
    {ManifestEntryOf(T1, Asset(T1, PrimaryLinux)),
     ManifestEntryOf(T1, Asset(T1, PrimaryWindowsDebug)),
     ManifestEntryOf(T2, Asset(T2, PrimaryMac)),
     ManifestEntryOf(TOdd, Asset(TOdd, PrimaryLinux))}

\* what a release can hold: no companion at all, the companions of two
\* platforms, or companions that do not fit linux/X86
AssetLists(tag) ==
    {<<Asset(tag, PrimaryLinux)>>,
     <<Asset(tag, PrimaryLinux), Asset(tag, ZstdLinuxX86), Asset(tag, ZstdMacArm)>>,
     <<Asset(tag, ZstdLinuxArm), Asset(tag, ZstdLinuxX86Zip), Asset(tag, ZstdWindowsX86)>>}

Deleted == [exists |-> FALSE, assets |-> <<>>]

\* the release source: T2 is the newest release and the one /releases/latest
\* answers with, T1 is older and may have been deleted since the manifest
\* was written, TOdd is a release whose tag is no date
ReleaseSources ==
    {rs \in [Tags -> [exists : BOOLEAN, assets : UNION {AssetLists(t) : t \in Tags} \cup {<<>>}]] :
        /\ rs[T1] = Deleted \/ (rs[T1].exists /\ rs[T1].assets \in AssetLists(T1))
        /\ rs[T2].exists /\ rs[T2].assets \in AssetLists(T2)
        /\ rs[TOdd].exists /\ rs[TOdd].assets = <<Asset(TOdd, PrimaryLinux)>>}

Procs ==
    {[platform |-> "linux", arch |-> "x64"], [platform |-> "darwin", arch |-> "arm64"],
     [platform |-> "win32", arch |-> "x64"], [platform |-> "freebsd", arch |-> "x64"],
     [platform |-> "linux", arch |-> "ia32"]}

ReqVersions == {V2118, <<"f", "8", "c", "b", "7", "9", "8">>, <<"2", "1", ".", "1">>}

ReqPlatforms == {<<"host">>, <<"linux">>, <<"macOS">>, <<"solaris">>}

ReqArchitectures == {<<"host">>, <<"X86">>, <<"x86">>}

Env(proc) == [manifest |-> manifest, releases |-> releases, latest |-> latest, proc |-> proc]

(***************************************************************************)
(* The resolver and the driver as a state machine                          *)
(***************************************************************************)
Init ==
    /\ manifest \in Manifests(ResolverEntries, MaxResolverManifest)
    /\ releases \in ReleaseSources
    /\ latest = T2
    /\ op = "idle"
    /\ args = <<>>
    /\ result = <<>>

CallGetMLIRUrl ==
    /\ op = "idle"
    /\ \E v \in ReqVersions, p \in ReqPlatforms, a \in ReqArchitectures,
          d \in BOOLEAN, proc \in Procs :
        /\ op' = "getMLIRUrl"
        /\ args' = [version |-> v, platform |-> p, architecture |-> a, debug |-> d,
                    proc |-> proc]
        /\ result' = getMLIRUrl(Env(proc), v, p, a, d)
    /\ UNCHANGED <<manifest, releases, latest>>

CallGetZstdUrl ==
    /\ op = "idle"
    /\ \E v \in ReqVersions, p \in ReqPlatforms, a \in ReqArchitectures, proc \in Procs :
        /\ op' = "getZstdUrl"
        /\ args' = [version |-> v, platform |-> p, architecture |-> a, debug |-> FALSE,
                    proc |-> proc]
        /\ result' = getZstdUrl(Env(proc), v, p, a)
    /\ UNCHANGED <<manifest, releases, latest>>

RunVersions == {V2118, <<"2", "1", ".", "1">>}

RunPlatforms == {<<"host">>, <<"linux">>, <<"windows">>, <<"solaris">>}

RunArchitectures == {<<"host">>, <<"x86">>}

\* run() is called and executes up to its first await (lines 156-179)
RunStart ==
    /\ op = "idle"
    /\ \E v \in RunVersions, p \in RunPlatforms, a \in RunArchitectures,
          d \in BOOLEAN, proc \in Procs :
        LET inputs == [llvm_version |-> v, platform |-> p, architecture |-> a,
                       debug |-> d, proc |-> proc]
            checked == runValidate(inputs, proc)
        IN  /\ op' = "run"
            /\ args' = inputs
            /\ result' = IF checked.ok
                         THEN RunState("resolveZstd", NoLog, NoValue, NoValue, <<>>,
                                       NoError, <<>>)
                         ELSE RunState("threw", NoLog, NoValue, NoValue, <<>>,
                                       checked, <<>>)
    /\ UNCHANGED <<manifest, releases, latest>>

\* the log of the invocation so far, extended by what the call r did
Logged(r) == [lookups |-> result.lookups \o r.lookups, net |-> result.net \o r.net]

Requested(q) == [lookups |-> result.lookups, net |-> Append(result.net, q)]

\* line 180: await getZstdLink(token, llvm_version, platform, architecture)
RunResolveZstd ==
    /\ op = "run" /\ result.pc = "resolveZstd"
    /\ LET r == getZstdUrl(Env(args.proc), args.llvm_version, args.platform,
                           args.architecture)
       IN  result' = IF r.ok
                     THEN RunState("downloadZstd", Logged(r), r.value, NoValue, <<>>,
                                   NoError, <<>>)
                     ELSE RunState("threw", Logged(r), NoValue, NoValue, <<>>, r, <<>>)
    /\ UNCHANGED <<manifest, releases, latest, op, args>>

\* line 187: await tc.downloadTool(zstdAsset.url)
RunDownloadZstd ==
    /\ op = "run" /\ result.pc = "downloadZstd"
    /\ \E fetched \in BOOLEAN :
        result' = IF fetched
                  THEN RunState("extractZstd", Requested(Download(result.zstd.url)),
                                result.zstd, NoValue, <<>>, NoError, <<>>)
                  ELSE RunState("threw", Requested(Download(result.zstd.url)),
                                result.zstd, NoValue, <<>>,
                                Throw("DownloadFailed", <<"Unexpected HTTP response">>), <<>>)
    /\ UNCHANGED <<manifest, releases, latest, op, args>>

\* lines 189-208: extract the companion, find its executable, chmod it
RunExtractZstd ==
    /\ op = "run" /\ result.pc = "extractZstd"
    /\ \E outcome \in {"extracted", "extractFailed", "noExecutable"} :
        result' = IF outcome = "extracted"
                  THEN RunState("resolveMlir", result, result.zstd, NoValue, <<>>,
                                NoError, <<>>)
                  ELSE IF outcome = "noExecutable"
                  THEN RunState("threw", result, result.zstd, NoValue, <<>>,
                                Throw("NoZstdExecutable", <<"zstd executable not found at ">>),
                                <<>>)
                  ELSE RunState("threw", result, result.zstd, NoValue, <<>>,
                                Throw("ExtractFailed", <<"The process failed">>), <<>>)
    /\ UNCHANGED <<manifest, releases, latest, op, args>>

\* line 211: await getDownloadLink(token, llvm_version, platform, architecture, debug)
RunResolveMlir ==
    /\ op = "run" /\ result.pc = "resolveMlir"
    /\ LET r == getMLIRUrl(Env(args.proc), args.llvm_version, args.platform,
                           args.architecture, args.debug)
       IN  result' = IF r.ok
                     THEN RunState("downloadMlir", Logged(r), result.zstd, r.value, <<>>,
                                   NoError, <<>>)
                     ELSE RunState("threw", Logged(r), result.zstd, NoValue, <<>>, r, <<>>)
    /\ UNCHANGED <<manifest, releases, latest, op, args>>

\* line 219: await tc.downloadTool(asset.url)
RunDownloadMlir ==
    /\ op = "run" /\ result.pc = "downloadMlir"
    /\ \E fetched \in BOOLEAN :
        result' = IF fetched
                  THEN RunState("extractMlir", Requested(Download(result.mlir.url)),
                                result.zstd, result.mlir, <<>>, NoError, <<>>)
                  ELSE RunState("threw", Requested(Download(result.mlir.url)),
                                result.zstd, result.mlir, <<>>,
                                Throw("DownloadFailed", <<"Unexpected HTTP response">>), <<>>)
    /\ UNCHANGED <<manifest, releases, latest, op, args>>

\* lines 221-252: decompress and untar the archive, cache it, clean up
RunExtractMlir ==
    /\ op = "run" /\ result.pc = "extractMlir"
    /\ \E extracted \in BOOLEAN :
        result' = IF extracted
                  THEN RunState("export", result, result.zstd, result.mlir, <<>>,
                                NoError, <<>>)
                  ELSE RunState("threw", result, result.zstd, result.mlir, <<>>,
                                Throw("ExtractFailed", <<"The process failed">>), <<>>)
    /\ UNCHANGED <<manifest, releases, latest, op, args>>

\* lines 254-265: addPath, exportVariable LLVM_DIR, exportVariable MLIR_DIR
RunExport ==
    /\ op = "run" /\ result.pc = "export"
    /\ result' = RunState("done", result, result.zstd, result.mlir, ExportEffects,
                          NoError, <<>>)
    /\ UNCHANGED <<manifest, releases, latest, op, args>>

\* the catch of the entry point: core.setFailed(error.message)
RunCatch ==
    /\ op = "run" /\ result.pc = "threw"
    /\ result' = RunState("failed", result, result.zstd, result.mlir, result.effects,
                          result.error, result.error.message)
    /\ UNCHANGED <<manifest, releases, latest, op, args>>

\* the entry point of the earlier index.ts: run() is called and not awaited,
\* so the rejection of its promise reaches no catch and setFailed is not
\* called.  The earlier run() has the steps from the download of the primary
\* archive on in common with the later one.
RunDetached ==
    /\ op = "run" /\ result.pc = "threw"
    /\ result.mlir # NoValue
    /\ result' = RunState("rejected", result, result.zstd, result.mlir, result.effects,
                          result.error, <<>>)
    /\ UNCHANGED <<manifest, releases, latest, op, args>>

Next ==
    \/ CallGetMLIRUrl
    \/ CallGetZstdUrl
    \/ RunStart
    \/ RunResolveZstd
    \/ RunDownloadZstd
    \/ RunExtractZstd
    \/ RunResolveMlir
    \/ RunDownloadMlir
    \/ RunExtractMlir
    \/ RunExport
    \/ RunCatch
    \/ RunDetached

Spec == Init /\ [][Next]_vars

(***************************************************************************)
(* The manifest lookup on its own: getManifestEntry with the arguments its *)
(* callers pass, the platform and architecture getPlatform and             *)
(* getArchitecture return                                                  *)
(***************************************************************************)
MaxManifest == 3

HashOther ==
    <<"f", "8", "c", "b", "7", "9", "9", "0", "a", "b", "c", "d">>

LookupEntries ==
    {ManifestEntryOf(T1, Asset(T1, PrimaryLinux)),
     ManifestEntryOf(T2, Asset(T2, PrimaryLinux)),
     ManifestEntryOf(T2, Asset(T2, BuildName(VersionToken(V21110), <<"linux">>,
                                             <<"x86", "_", "6", "4">>, <<"X86">>, FALSE, TarZst))),
     ManifestEntryOf(T1, Asset(T1, PrimaryMac)),
     ManifestEntryOf(T1, Asset(T1, BuildName(VersionToken(HashOther), <<"macos">>,
                                             <<"arm64">>, <<"AArch64">>, FALSE, TarZst))),
     ManifestEntryOf(T1, Asset(T1, PrimaryWindowsDebug))}

LookupVersions ==
    {V2118, <<"2", "1", ".", "1", ".", "1">>, <<"f", "8", "c", "b", "7", "9", "8">>,
     <<"f", "8", "c", "b", "7", "9", "9">>, <<"f", "8", "c", "b", "7", "9">>, <<>>}

\* what getPlatform and getArchitecture return
NormalPlatforms == {<<"linux">>, <<"macOS">>, <<"windows">>}

NormalArchitectures == {<<"X86">>, <<"AArch64">>}

NoReleases == [t \in Tags |-> Deleted]

InitLookup ==
    /\ manifest \in Manifests(LookupEntries, MaxManifest)
    /\ releases = NoReleases
    /\ latest = T2
    /\ op = "idle"
    /\ args = <<>>
    /\ result = <<>>

CallGetManifestEntry ==
    /\ op = "idle"
    /\ \E v \in LookupVersions, p \in NormalPlatforms, a \in NormalArchitectures,
          d \in BOOLEAN :
        /\ op' = "getManifestEntry"
        /\ args' = [version |-> v, platform |-> p, architecture |-> a, debug |-> d]
        /\ result' = getManifestEntry(manifest, v, p, a, d)
    /\ UNCHANGED <<manifest, releases, latest>>

NextLookup == CallGetManifestEntry

SpecLookup == InitLookup /\ [][NextLookup]_vars

(***************************************************************************)
(* Properties                                                              *)
(***************************************************************************)
\* v is what w begins with
IsPrefixOf(v, w) == \E k \in 0..Len(w) : SubSeq(w, 1, k) = v

\* the entries of the manifest a request qualifies for, with the platform
\* and the architecture compared after lower-casing the requested ones
Qualifying(v, p, a, d) ==
    {i \in 1..Len(manifest) :
        /\ IsPrefixOf(v, manifest[i].version)
        /\ manifest[i].platform = ToLowerCase(p)
        /\ manifest[i].architecture = ToLowerCase(a)
        /\ manifest[i].debug = d}

\* the same with the platform and the architecture compared as requested
QualifyingVerbatim(v, p, a, d) ==
    {i \in 1..Len(manifest) :
        /\ IsPrefixOf(v, manifest[i].version)
        /\ manifest[i].platform = p
        /\ manifest[i].architecture = a
        /\ manifest[i].debug = d}

HostPlatforms ==
    [linux |-> <<"linux">>, darwin |-> <<"macOS">>, win32 |-> <<"windows">>]

HostArchitectures == [x64 |-> <<"X86">>, arm64 |-> <<"AArch64">>]

Host == <<"host">>

\* the request names a platform and an architecture the normalizer resolves
ValidRequest(r) ==
    /\ r.platform \in {Host, <<"linux">>, <<"macOS">>, <<"windows">>}
    /\ r.platform = Host => r.proc.platform \in DOMAIN HostPlatforms
    /\ r.architecture \in {Host, <<"X86">>, <<"AArch64">>}
    /\ r.architecture = Host => r.proc.arch \in DOMAIN HostArchitectures

PlatformOf(r) ==
    IF r.platform = Host THEN HostPlatforms[r.proc.platform] ELSE r.platform

ArchitectureOf(r) ==
    IF r.architecture = Host THEN HostArchitectures[r.proc.arch] ELSE r.architecture

\* the entries the normalized request r qualifies for, r.debug being the variant
QualifyingFor(r) ==
    Qualifying(r.version, PlatformOf(r), ArchitectureOf(r), r.debug)

First(Q) == CHOOSE i \in Q : \A j \in Q : i <= j

\* C2: whenever the lookup for the normalized request matches an entry e,
\* getMLIRUrl returns exactly {url: e.download_url, name: e.asset_name} of the
\* first such entry, and makes no request to the release source.
C2_PrimaryFromManifest ==
    (op = "getMLIRUrl" /\ ValidRequest(args) /\ QualifyingFor(args) # {}) =>
        LET e == manifest[First(QualifyingFor(args))]
        IN  /\ result.ok
            /\ result.value = [url |-> e.download_url, name |-> e.asset_name]
            /\ result.net = <<>>

\* a debug build for the host, a Windows machine, is resolved from the manifest
C2_Witness ==
    /\ op = "getMLIRUrl"
    /\ args.platform = Host /\ args.debug
    /\ result.ok
    /\ result.value.name = PrimaryWindowsDebug
    /\ result.net = <<>>

\* C3: when no manifest entry matches the normalized request, getMLIRUrl and
\* getZstdUrl fail with the no-archive-found error; its message includes the
\* architecture, the platform and the version asked for, and " (debug)"
\* exactly when the debug variant was asked for; no entry is returned
\* instead, the manifest is looked up once and no request is made.
C3_NoArchiveFound ==
    (op \in {"getMLIRUrl", "getZstdUrl"} /\ ValidRequest(args) /\ QualifyingFor(args) = {}) =>
        /\ ~result.ok
        /\ result.kind = "NoArchive"
        /\ result.value = NoValue
        /\ Includes(result.message, ArchitectureOf(args))
        /\ Includes(result.message, PlatformOf(args))
        /\ Includes(result.message, args.version)
        /\ Includes(result.message, <<" (debug)">>) <=> args.debug
        /\ Len(result.lookups) = 1
        /\ result.net = <<>>

\* a debug build is asked of a manifest that holds other entries only
C3_Witness ==
    /\ op = "getMLIRUrl"
    /\ args.debug
    /\ manifest # <<>>
    /\ result.kind = "NoArchive"
    /\ Includes(result.message, <<" (debug)">>)

\* name is a companion asset of the platform and the architecture:
\* zstd-<toolVersion>_<platform>_<label>_<architecture>.<ext>, the platform
\* in lower case, and zip for windows, tar.gz for the others
CompanionLabels == {<<"x86", "_", "6", "4">>, <<"aarch64">>, <<"arm64">>, <<"X64">>}

CompanionFits(name, platform, architecture) ==
    \E label \in CompanionLabels :
        name = ZstdName(ToLowerCase(platform), label, architecture,
                        IF platform = <<"windows">> THEN <<"zip">> ELSE TarGz)

CompanionsIn(tag, r) ==
    {i \in 1..Len(releases[tag].assets) :
        CompanionFits(releases[tag].assets[i].name, PlatformOf(r), ArchitectureOf(r))}

\* the entry getZstdUrl starts from: the release variant of the request
CompanionRequest ==
    /\ op = "getZstdUrl"
    /\ ValidRequest(args)
    /\ QualifyingFor(args) # {}

MatchedTag == manifest[First(QualifyingFor(args))].tag

\* C4 (as amended): if the matched entry's tag has the form NNNN.NN.NN and
\* its release contains no matching companion asset but the latest release
\* contains one, getZstdUrl succeeds and returns the {url, name} of the
\* latest release's first matching companion asset.
C4_FallbackToLatest ==
    (/\ CompanionRequest
     /\ isDateTag(MatchedTag)
     /\ releases[MatchedTag].exists
     /\ CompanionsIn(MatchedTag, args) = {}
     /\ CompanionsIn(latest, args) # {}) =>
        LET c == releases[latest].assets[First(CompanionsIn(latest, args))]
        IN  /\ result.ok
            /\ result.value = [url |-> c.browser_download_url, name |-> c.name]

\* C4 (as stated): the same for every matched entry, whatever its tag
C4_FallbackAnyTag ==
    (/\ CompanionRequest
     /\ releases[MatchedTag].exists
     /\ CompanionsIn(MatchedTag, args) = {}
     /\ CompanionsIn(latest, args) # {}) =>
        LET c == releases[latest].assets[First(CompanionsIn(latest, args))]
        IN  /\ result.ok
            /\ result.value = [url |-> c.browser_download_url, name |-> c.name]

\* the older release holds no companion for the request, the latest does
C4_Witness ==
    /\ CompanionRequest
    /\ MatchedTag = T1
    /\ CompanionsIn(T1, args) = {}
    /\ result.ok
    /\ result.net = <<ByTag(T1), Latest>>
    /\ result.value.url = DownloadUrl(T2, ZstdLinuxX86)

MalformedVersion(v) == ~isVersionTag(v) /\ ~isCommitHash(v)

\* an invocation of run() that has made no lookup and no request, and has
\* failed or is about to call the resolver for the first time
RunRejected ==
    /\ result.pc \in {"resolveZstd", "threw", "failed"}
    /\ result.lookups = <<>>
    /\ result.net = <<>>
    /\ result.effects = <<>>

\* C8 (as amended): a request with an invalid platform, an invalid
\* architecture or an unsupported host is rejected by getMLIRUrl, by
\* getZstdUrl and by run() before any lookup and any network request; a
\* version that is neither MAJOR.MINOR.PATCH nor 7-40 hex characters is
\* rejected by run(), with the invalid-version error unless the debug check
\* fails first, before any network request.
C8_RejectedBeforeNetwork ==
    /\ (op \in {"getMLIRUrl", "getZstdUrl"} /\ ~ValidRequest(args)) =>
            /\ ~result.ok
            /\ result.kind \in {"InvalidPlatform", "InvalidArchitecture",
                                "UnsupportedPlatform", "UnsupportedArchitecture"}
            /\ result.lookups = <<>>
            /\ result.net = <<>>
    /\ (op = "run" /\ ~ValidRequest(args)) => RunRejected
    /\ (op = "run" /\ MalformedVersion(args.llvm_version)) =>
            /\ RunRejected
            /\ result.pc # "resolveZstd"
            /\ result.error.kind \in {"InvalidVersion", "DebugNotWindows"}

\* C8 (as stated): the resolvers too reject a malformed version before any
\* network request
C8_ResolversRejectVersion ==
    (op \in {"getMLIRUrl", "getZstdUrl"} /\ MalformedVersion(args.version)) =>
        /\ ~result.ok
        /\ result.net = <<>>

\* run() has failed on the version 21.1 of an otherwise valid request
C8_Witness ==
    /\ op = "run"
    /\ ValidRequest(args)
    /\ MalformedVersion(args.llvm_version)
    /\ result.pc = "failed"
    /\ result.error.kind = "InvalidVersion"
    /\ result.failed = result.error.message
    /\ result.net = <<>>

\* C9: no manifest lookup is made for the platform or the architecture
\* "host": every lookup is for the concrete platform and architecture of the
\* request, those of the process where "host" was asked for; and when "host"
\* is asked for on a process whose OS or CPU is not supported, the call fails
\* without any lookup, with the unsupported-platform error, or the
\* unsupported-architecture error if the platform is a valid one.
C9_HostNeverLookedUp ==
    op \in {"getMLIRUrl", "getZstdUrl", "run"} =>
        /\ \A i \in 1..Len(result.lookups) :
              /\ result.lookups[i].platform # Host
              /\ result.lookups[i].architecture # Host
              /\ ValidRequest(args)
              /\ result.lookups[i].platform = PlatformOf(args)
              /\ result.lookups[i].architecture = ArchitectureOf(args)
        /\ (args.platform = Host /\ args.proc.platform \notin DOMAIN HostPlatforms) =>
              /\ result.lookups = <<>>
              /\ op # "run" => ~result.ok /\ result.kind = "UnsupportedPlatform"
              /\ op = "run" => RunRejected
        /\ (args.architecture = Host /\ args.proc.arch \notin DOMAIN HostArchitectures) =>
              /\ result.lookups = <<>>
              /\ op # "run" => ~result.ok
              /\ (op # "run" /\ getPlatform(args.platform, args.proc).ok) =>
                    result.kind = "UnsupportedArchitecture"
              /\ op = "run" => RunRejected

\* "host" was asked for twice on a macOS/arm64 machine and the lookup was
\* made for macOS and AArch64
C9_Witness ==
    /\ op = "getZstdUrl"
    /\ args.platform = Host /\ args.architecture = Host
    /\ args.proc = [platform |-> "darwin", arch |-> "arm64"]
    /\ Len(result.lookups) = 1
    /\ result.lookups[1].platform = <<"macOS">>
    /\ result.lookups[1].architecture = <<"AArch64">>
    /\ result.ok

(***************************************************************************)
(* The identifier normalizer on its own                                    *)
(***************************************************************************)
AllProcs == [platform : ProcessPlatforms, arch : ProcessArchs]

PlatformInputs ==
    {<<"host">>, <<"linux">>, <<"macOS">>, <<"windows">>, <<"macos">>, <<"Linux">>,
     <<"Windows">>, <<"HOST">>, <<"solaris">>, <<"invalid">>, <<"darwin">>, <<>>,
     <<"linux", " ">>}

ArchitectureInputs ==
    {<<"host">>, <<"X86">>, <<"AArch64">>, <<"x86">>, <<"aarch64">>, <<"HOST">>,
     <<"x64">>, <<"arm64">>, <<"invalid">>, <<>>, <<"X86", "_", "6", "4">>}

InitNormalize ==
    /\ manifest = <<>>
    /\ releases = NoReleases
    /\ latest = T2
    /\ op = "idle"
    /\ args = <<>>
    /\ result = <<>>

CallGetPlatform ==
    /\ op = "idle"
    /\ \E p \in PlatformInputs, proc \in AllProcs :
        /\ op' = "getPlatform"
        /\ args' = [platform |-> p, proc |-> proc]
        /\ result' = getPlatform(p, proc)
    /\ UNCHANGED <<manifest, releases, latest>>

CallGetArchitecture ==
    /\ op = "idle"
    /\ \E a \in ArchitectureInputs, proc \in AllProcs :
        /\ op' = "getArchitecture"
        /\ args' = [architecture |-> a, proc |-> proc]
        /\ result' = getArchitecture(a, proc)
    /\ UNCHANGED <<manifest, releases, latest>>

NextNormalize ==
    \/ CallGetPlatform
    \/ CallGetArchitecture

SpecNormalize == InitNormalize /\ [][NextNormalize]_vars

\* C6 (as amended): getPlatform accepts exactly host, linux, macOS and
\* windows, getArchitecture exactly host, X86 and AArch64, case-sensitively:
\* linux, macOS, windows, X86 and AArch64 are returned as they are, host is
\* resolved from the process, and every other input (macos, x86, aarch64,
\* Linux, solaris, invalid, ...) fails with the invalid-platform or
\* invalid-architecture error, whose message names the offending value and
\* the tokens linux, macOS, windows, or X86, AArch64.
C6_NormalizerTokens ==
    /\ op = "getPlatform" =>
        /\ result.kind = "InvalidPlatform" <=>
              args.platform \notin {<<"host">>, <<"linux">>, <<"macOS">>, <<"windows">>}
        /\ args.platform \in {<<"linux">>, <<"macOS">>, <<"windows">>} =>
              result.ok /\ result.value = args.platform
        /\ (args.platform = Host /\ args.proc.platform \in DOMAIN HostPlatforms) =>
              result.ok /\ result.value = HostPlatforms[args.proc.platform]
        /\ result.kind = "InvalidPlatform" =>
              /\ ~result.ok
              /\ StartsWith(result.message, <<"Invalid platform: ">> \o args.platform)
              /\ \A t \in {<<"linux">>, <<"macOS">>, <<"windows">>} :
                    Includes(result.message, t)
    /\ op = "getArchitecture" =>
        /\ result.kind = "InvalidArchitecture" <=>
              args.architecture \notin {<<"host">>, <<"X86">>, <<"AArch64">>}
        /\ args.architecture \in {<<"X86">>, <<"AArch64">>} =>
              result.ok /\ result.value = args.architecture
        /\ (args.architecture = Host /\ args.proc.arch \in DOMAIN HostArchitectures) =>
              result.ok /\ result.value = HostArchitectures[args.proc.arch]
        /\ result.kind = "InvalidArchitecture" =>
              /\ ~result.ok
              /\ StartsWith(result.message, <<"Invalid architecture: ">> \o args.architecture)
              /\ \A t \in {<<"X86">>, <<"AArch64">>} : Includes(result.message, t)

\* C6 (as stated): the tokens accepted are host, linux, macos, windows and
\* host, x86, aarch64
C6_LowerCaseTokens ==
    /\ op = "getPlatform" =>
        (result.kind = "InvalidPlatform" <=>
            args.platform \notin {<<"host">>, <<"linux">>, <<"macos">>, <<"windows">>})
    /\ op = "getArchitecture" =>
        (result.kind = "InvalidArchitecture" <=>
            args.architecture \notin {<<"host">>, <<"x86">>, <<"aarch64">>})

\* Linux, in the wrong case, is rejected by name
C6_Witness ==
    /\ op = "getPlatform"
    /\ args.platform = <<"Linux">>
    /\ result.kind = "InvalidPlatform"
    /\ Includes(result.message, <<"Linux">>)

(***************************************************************************)
(* The version check of run() on its own                                   *)
(***************************************************************************)
MaxVersionLen == 7

MaxHexLen == 42

VersionSyms == {"1", ".", "v"}

HexSyms == {"9", "a", "F", "g"}

\* every string of up to MaxVersionLen symbols of VersionSyms, and the
\* strings of up to MaxHexLen equal symbols of HexSyms, alone or after 21.1.8
VersionInputs ==
    UNION {[1..n -> VersionSyms] : n \in 0..MaxVersionLen}
      \cup {Rep(c, n) : c \in HexSyms, n \in 0..MaxHexLen}
      \cup {<<"a", "F">> \o Rep(c, n) : c \in HexSyms, n \in 0..(MaxHexLen - 2)}
      \cup {V2118, V21110, V2118 \o <<".", "9">>, HashFull, HashFull \o <<"0">>}

InitVersion ==
    /\ manifest = <<>>
    /\ releases = NoReleases
    /\ latest = T2
    /\ op = "idle"
    /\ args = <<>>
    /\ result = <<>>

\* lines 170-177 of run() on the input llvm_version
CallValidateVersion ==
    /\ op = "idle"
    /\ \E v \in VersionInputs :
        /\ op' = "validateVersion"
        /\ args' = [llvm_version |-> v]
        /\ result' = [isVersionTag |-> isVersionTag(v),
                      isCommitHash |-> isCommitHash(v),
                      thrown |-> validateVersion(v)]
    /\ UNCHANGED <<manifest, releases, latest>>

NextVersion == CallValidateVersion

SpecVersion == InitVersion /\ [][NextVersion]_vars

\* three non-empty groups of digits, separated by two dots
ThreeDigitGroups(v) ==
    \E i, j \in 1..Len(v) :
        /\ 1 < i /\ i + 1 < j /\ j < Len(v)
        /\ v[i] = "." /\ v[j] = "."
        /\ \A k \in 1..Len(v) : k \notin {i, j} => v[k] \in Digits

\* 7 to 40 hexadecimal characters, in either letter case
HexOfHashLength(v) ==
    /\ Len(v) >= 7 /\ Len(v) <= 40
    /\ \A k \in 1..Len(v) : v[k] \in Digits \cup LowerHexLetters \cup UpperHexLetters

\* C7: a string is an exact version iff it consists of three dot-separated
\* non-empty digit groups, and a commit prefix iff it consists of 7 to 40
\* hexadecimal characters of either case; no string is both, and a string
\* that is neither is rejected with the invalid-version error, while the
\* others are let through.
C7_VersionClassification ==
    op = "validateVersion" =>
        /\ result.isVersionTag <=> ThreeDigitGroups(args.llvm_version)
        /\ result.isCommitHash <=> HexOfHashLength(args.llvm_version)
        /\ ~(result.isVersionTag /\ result.isCommitHash)
        /\ ~result.thrown.ok <=> ~result.isVersionTag /\ ~result.isCommitHash
        /\ ~result.thrown.ok =>
              /\ result.thrown.kind = "InvalidVersion"
              /\ Includes(result.thrown.message, args.llvm_version)
        /\ result.thrown.ok => result.thrown.value = args.llvm_version

\* 41 hexadecimal characters are rejected
C7_Witness ==
    /\ op = "validateVersion"
    /\ Len(args.llvm_version) = 41
    /\ \A k \in 1..41 : args.llvm_version[k] \in Digits \cup LowerHexLetters
    /\ ~result.thrown.ok
    /\ result.thrown.kind = "InvalidVersion"

(***************************************************************************)
(* The asset name codec on its own: names built by the template, parsed by *)
(* getMetadata and getVersionFromAssetName                                 *)
(***************************************************************************)
CodecVersions ==
    {V2118, V21110, <<"0", ".", "0", ".", "0">>, HashFull,
     <<"f", "8", "c", "b", "7", "9", "8">>, <<"F", "8", "C", "B", "7", "9", "8">>,
     <<"1", "2", "3", "4", "5", "6", "7">>}

CodecPlatforms == {<<"linux">>, <<"macos">>, <<"windows">>}

CodecLabels ==
    {<<"x86", "_", "6", "4">>, <<"ubuntu-", "2", "4", ".", "0", "4">>, <<"arm64">>,
     <<"X86">>, <<"X86", "_", "debug">>, <<"a", "_", "AArch64", ".", "b">>}

CodecArchTokens == {<<"X86">>, <<"AArch64">>}

CodecExtensions == {TarZst, <<"zip">>}

InitCodec ==
    /\ manifest = <<>>
    /\ releases = NoReleases
    /\ latest = T2
    /\ op = "idle"
    /\ args = <<>>
    /\ result = <<>>

CallParseAssetName ==
    /\ op = "idle"
    /\ \E v \in CodecVersions, p \in CodecPlatforms, l \in CodecLabels,
          a \in CodecArchTokens, d \in BOOLEAN, x \in CodecExtensions :
        LET name == BuildName(VersionToken(v), p, l, a, d, x)
        IN  /\ op' = "parse"
            /\ args' = [version |-> v, platform |-> p, osLabel |-> l, archToken |-> a,
                        debug |-> d, ext |-> x, name |-> name]
            /\ result' = [metadata |-> getMetadata(name),
                          version |-> getVersionFromAssetName(name)]
    /\ UNCHANGED <<manifest, releases, latest>>

NextCodec == CallParseAssetName

SpecCodec == InitCodec /\ [][NextCodec]_vars

Release(tag, created_at, assets) ==
    [tag_name |-> tag, created_at |-> created_at, html_url |-> ReleaseUrl(tag),
     assets |-> assets]

\* the assets of the listed releases, release by release, each with its release
RECURSIVE ListedAssets(_)
ListedAssets(listed) ==
    IF listed = <<>> THEN <<>>
    ELSE [i \in 1..Len(Head(listed).assets) |->
             [release |-> Head(listed), asset |-> Head(listed).assets[i]]]
           \o ListedAssets(Tail(listed))

\* a faulty variant of InitialEntries: the entries of the manifest file
InitialEntriesFromDisk == manifest

\* line 303 of updateManifest: the array the entries are pushed to
InitialEntries == <<>>

\* lines 308-324 of updateManifest: one asset of one release.  Only a name
\* that starts with "llvm-mlir" is looked at; an Error thrown by getMetadata
\* or getVersionFromAssetName is not caught.
PushEntry(acc, item) ==
    IF ~StartsWith(item.asset.name, <<"llvm-mlir">>) THEN Ok(acc)
    ELSE IF ~getMetadata(item.asset.name).ok THEN getMetadata(item.asset.name)
    ELSE IF ~getVersionFromAssetName(item.asset.name).ok
    THEN getVersionFromAssetName(item.asset.name)
    ELSE Ok(Append(acc, ManifestEntryOf(item.release.tag_name, item.asset)))

\* lines 306-325 of updateManifest: the loops over releases and assets, which
\* a thrown Error ends
RECURSIVE PushEntries(_, _)
PushEntries(items, acc) ==
    IF items = <<>> \/ ~acc.ok THEN acc
    ELSE PushEntries(Tail(items), PushEntry(acc.value, Head(items)))

\* a faulty variant of InsertEntry: the entries stay in the order they were
\* pushed in
InsertEntryAtEnd(sorted, e) == Append(sorted, e)

\* Array.prototype.sort is stable: e goes behind the entries that do not
\* compare greater than it
InsertEntry(sorted, e) ==
    LET p == Cardinality({i \in 1..Len(sorted) : ManifestCompare(sorted[i], e) <= 0})
    IN  SubSeq(sorted, 1, p) \o <<e>> \o SubSeq(sorted, p + 1, Len(sorted))

\* lines 327-335 of updateManifest: manifest.sort
RECURSIVE SortManifest(_)
SortManifest(m) ==
    IF m = <<>> THEN <<>>
    ELSE InsertEntry(SortManifest(SubSeq(m, 1, Len(m) - 1)), m[Len(m)])

\* the versions.add of line 322, for README.md
VersionsOf(m) == {m[i].version : i \in 1..Len(m)}

\* updateManifest on the releases the pages list: what it throws, or the
\* manifest it writes, the versions it lists in README.md and the latest-tag
\* output
updateManifest(listed, newest) ==
    LET pushed == PushEntries(ListedAssets(listed), Ok(InitialEntries))
    IN  IF ~pushed.ok
        THEN [ok |-> FALSE, value |-> NoValue, kind |-> pushed.kind,
              message |-> pushed.message, written |-> FALSE, versions |-> {},
              warnings |-> <<>>, latest_tag |-> NoValue]
        ELSE [ok |-> TRUE, value |-> SortManifest(pushed.value), kind |-> "none",
              message |-> <<>>, written |-> TRUE, versions |-> VersionsOf(pushed.value),
              warnings |-> <<>>, latest_tag |-> newest]

(***************************************************************************)
(* Rebuild of the manifest with the companion recorded in every entry      *)
(* (the later manifest.ts): getReleases and updateManifest                 *)
(***************************************************************************)
\* Array.prototype.sort is stable: r goes behind the releases that were not
\* created before it
InsertRelease(sorted, r) ==
    LET p == Cardinality({i \in 1..Len(sorted) :
                             LocaleCompare(r.created_at, sorted[i].created_at) <= 0})
    IN  SubSeq(sorted, 1, p) \o <<r>> \o SubSeq(sorted, p + 1, Len(sorted))

\* getReleases: the pages, sorted by created_at, the newest release first
RECURSIVE getReleases(_)
getReleases(listed) ==
    IF listed = <<>> THEN <<>>
    ELSE InsertRelease(getReleases(SubSeq(listed, 1, Len(listed) - 1)),
                       listed[Len(listed)])

\* The matches of /zstd-(.+?)_(.+?)_(.+)_(x86|aarch64)\./i in s, as in
\* MetadataMatches
ZstdInfoMatches(s) ==
    LET U == UnderscoresOf(s)
        I == {i \in 1..Len(s) : LowerSym(s[i]) = "zstd-"}
        E == {u \in U : u + 2 <= Len(s) /\ LowerSym(s[u + 1]) \in {"x86", "aarch64"}}
    IN  {m \in [i : I, u1 : U, u2 : U, u3 : E] :
            /\ LowerSym(s[m.i]) = "zstd-"
            /\ m.u1 > m.i + 1
            /\ m.u2 > m.u1 + 1
            /\ m.u3 > m.u2 + 1
            /\ m.u3 + 2 <= Len(s)
            /\ LowerSym(s[m.u3 + 1]) \in {"x86", "aarch64"}
            /\ s[m.u3 + 2] = "."}

\* The matches of /llvm-mlir_(.+?)_(.+?)_(.+)_(x86|aarch64)\./i in s: the
\* ones of MetadataMatches without a "_debug"
InlineMatches(s) == {m \in MetadataMatches(s) : s[m.u3 + 2] = "."}

PreferredMatch(M) == CHOOSE m \in M : \A n \in M : MetadataPrefers(m, n)

\* [match[2].toLowerCase(), match[4].toLowerCase()]
PairOf(s, m) ==
    <<ToLowerCase(SubSeq(s, m.u1 + 1, m.u2 - 1)), ToLowerCase(<<s[m.u3 + 1]>>)>>

\* one asset in the first loop over the assets of a release: the first
\* companion seen for a platform and architecture is kept in zstdInfo
RecordZstdAsset(zstdInfo, asset) ==
    IF ~StartsWith(asset.name, <<"zstd-">>) \/ ZstdInfoMatches(asset.name) = {}
    THEN zstdInfo
    ELSE IF PairOf(asset.name, PreferredMatch(ZstdInfoMatches(asset.name)))
              \in DOMAIN zstdInfo
    THEN zstdInfo
    ELSE zstdInfo @@ (PairOf(asset.name, PreferredMatch(ZstdInfoMatches(asset.name)))
                        :> [name |-> asset.name, url |-> asset.browser_download_url])

\* the first loop over the assets of a release
RECURSIVE RecordZstd(_, _)
RecordZstd(assets, zstdInfo) ==
    IF assets = <<>> THEN zstdInfo
    ELSE RecordZstd(Tail(assets), RecordZstdAsset(zstdInfo, Head(assets)))

\* getVersionFromAssetName of the later manifest.ts: the version in lower case
getVersionLowerCase(assetName) ==
    LET v == getVersionFromAssetName(assetName)
    IN  IF v.ok THEN Ok(ToLowerCase(v.value)) ELSE v

InlineEntry(release, asset, key, version, zstd) ==
    [architecture      |-> key[2],
     asset_name        |-> asset.name,
     download_url      |-> asset.browser_download_url,
     platform          |-> key[1],
     release_url       |-> release.html_url,
     tag               |-> release.tag_name,
     version           |-> version,
     zstd_asset_name   |-> zstd.name,
     zstd_download_url |-> zstd.url]

Skipping(asset, message) == <<"Skipping asset ">> \o asset.name \o <<": ">> \o message

\* the key of zstdInfo an asset name gives
InlineKey(name) == PairOf(name, PreferredMatch(InlineMatches(name)))

\* one asset in the second loop over the assets of a release.  st holds the
\* manifest and the warnings so far, and version, the variable of that name:
\* the version of the last primary asset whose version could be read.  What
\* the try block throws becomes a warning.
RecordPrimaryAsset(release, asset, versions, zstdInfo, st) ==
    IF InlineMatches(asset.name) = {} THEN st
    ELSE IF ~getVersionLowerCase(asset.name).ok
    THEN [st EXCEPT !.warnings =
             Append(@, Skipping(asset, getVersionLowerCase(asset.name).message))]
    ELSE IF getVersionLowerCase(asset.name).value \in versions
    THEN [st EXCEPT !.version = <<getVersionLowerCase(asset.name).value>>]
    ELSE IF InlineKey(asset.name) \notin DOMAIN zstdInfo
    THEN [st EXCEPT !.version = <<getVersionLowerCase(asset.name).value>>,
                    !.warnings =
             Append(@, Skipping(asset, <<"No zstd binary found for ">> \o asset.name
                                         \o <<".">>))]
    ELSE [st EXCEPT !.version = <<getVersionLowerCase(asset.name).value>>,
                    !.manifest =
             Append(@, InlineEntry(release, asset, InlineKey(asset.name),
                                   getVersionLowerCase(asset.name).value,
                                   zstdInfo[InlineKey(asset.name)]))]

\* the second loop over the assets of a release
RECURSIVE RecordPrimary(_, _, _, _, _)
RecordPrimary(release, assets, versions, zstdInfo, st) ==
    IF assets = <<>> THEN st
    ELSE RecordPrimary(release, Tail(assets), versions, zstdInfo,
                       RecordPrimaryAsset(release, Head(assets), versions, zstdInfo, st))

\* versions.add(version) after a release, when a version was read in it
SeenAfter(versions, st) ==
    IF st.version = <<>> THEN versions ELSE versions \cup {st.version[1]}

\* one release.  all holds the versions set, zstdInfo, which is kept from
\* release to release, and st, whose version is reset for every release.
RecordRelease(release, all) ==
    LET info  == RecordZstd(release.assets, all.zstdInfo)
        after == RecordPrimary(release, release.assets, all.versions, info,
                               [all.st EXCEPT !.version = <<>>])
    IN  [versions |-> SeenAfter(all.versions, after), zstdInfo |-> info, st |-> after]

\* the loop over the releases
RECURSIVE RecordReleases(_, _)
RecordReleases(sorted, all) ==
    IF sorted = <<>> THEN all
    ELSE RecordReleases(Tail(sorted), RecordRelease(Head(sorted), all))

\* updateManifest of the later manifest.ts: nothing is thrown by the scan
updateManifestInline(listed, newest) ==
    LET done == RecordReleases(getReleases(listed),
                               [versions |-> {}, zstdInfo |-> <<>>,
                                st |-> [manifest |-> InitialEntries, warnings |-> <<>>,
                                        version |-> <<>>]])
    IN  [ok |-> TRUE, value |-> SortManifest(done.st.manifest), kind |-> "none",
         message |-> <<>>, written |-> TRUE, versions |-> done.versions,
         warnings |-> done.st.warnings, latest_tag |-> newest]

(***************************************************************************)
(* The rebuild as a state machine: the release history is what the release *)
(* source holds, the listing is the order the pages give it in             *)
(***************************************************************************)
MaxAssets == 2

OsLabel == <<"x86", "_", "6", "4">>

OtherOsLabel == <<"ubuntu-", "2", "4", ".", "0", "4">>

PrimaryLinuxOther ==
    BuildName(VersionToken(V2118), <<"linux">>, OtherOsLabel, <<"X86">>, FALSE, TarZst)

\* a source archive: its name starts with llvm-mlir and fits no pattern
SourceArchive == <<"llvm-mlir", "-src", ".", "tar", ".", "gz">>

\* a primary archive of a branch build: no version can be read from its name
PrimaryOfBranch ==
    BuildName(<<"main">>, <<"linux">>, OsLabel, <<"X86">>, FALSE, TarZst)

\* the asset names of the release history, in the order a release lists them
RebuildNames ==
    <<ZstdLinuxX86, PrimaryLinux, PrimaryLinuxOther, PrimaryMac, PrimaryWindowsDebug,
      SourceArchive, PrimaryOfBranch>>

RebuildTags == {T1, T2}

CreatedEarly == <<"2", "0", "2", "5", "-", "1", "2", "-", "1", "1">>

CreatedLate == <<"2", "0", "2", "6", "-", "0", "1", "-", "0", "7">>

\* the assets of the older release: at most MaxAssets of the names (a
\* release holds a name once)
OlderAssetLists ==
    {[i \in 1..Len(ix) |-> Asset(T1, RebuildNames[ix[i]])] :
        ix \in {ix \in UNION {[1..n -> 1..Len(RebuildNames)] : n \in 0..MaxAssets} :
                   \A i, j \in 1..Len(ix) : i < j => ix[i] < ix[j]}}

\* the assets of the newer release
NewerAssetLists ==
    {<<>>,
     <<Asset(T2, PrimaryLinux)>>,
     <<Asset(T2, ZstdLinuxX86), Asset(T2, PrimaryLinux), Asset(T2, PrimaryMac)>>,
     <<Asset(T2, ZstdLinuxX86), Asset(T2, PrimaryLinux), Asset(T2, PrimaryLinuxOther)>>,
     <<Asset(T2, PrimaryMac), Asset(T2, SourceArchive)>>,
     <<Asset(T2, ZstdMacArm), Asset(T2, PrimaryMac)>>,
     <<Asset(T2, PrimaryOfBranch), Asset(T2, PrimaryLinuxOther)>>}

\* the release history: a release is tagged with the date it is created on
RebuildSources ==
    {rs \in [RebuildTags -> [created_at : {CreatedEarly, CreatedLate},
                             assets : OlderAssetLists \cup NewerAssetLists]] :
        /\ rs[T1].created_at = CreatedEarly
        /\ rs[T2].created_at = CreatedLate
        /\ rs[T1].assets \in OlderAssetLists
        /\ rs[T2].assets \in NewerAssetLists}

\* the orders in which the pages can list the releases
Listings == {<<T1, T2>>, <<T2, T1>>}

Listed(listing) ==
    [i \in 1..Len(listing) |->
        Release(listing[i], releases[listing[i]].created_at, releases[listing[i]].assets)]

\* the manifest a previous run left in the file
StaleManifests == {<<>>, <<ManifestEntryOf(T1, Asset(T1, PrimaryLinux))>>}

\* what is known of the run before: nothing, or what it returned
NoRun == [listing |-> <<>>, before |-> <<>>, first |-> <<>>]

InitRebuild ==
    /\ manifest \in StaleManifests
    /\ releases \in RebuildSources
    /\ latest = T2
    /\ op = "idle"
    /\ args = NoRun
    /\ result = <<>>

\* updateManifest() runs to its end or to the Error it throws; the file is
\* written by the fs.writeFile of line 337 only.  It runs for the first
\* time, or once more with the release source and the order of its pages
\* being what they were; first is what the run before returned.
CallUpdateManifest ==
    /\ op \in {"idle", "updateManifest"}
    /\ \E listing \in (IF op = "idle" THEN Listings ELSE {args.listing}) :
        LET out == updateManifest(Listed(listing), latest)
        IN  /\ op' = IF op = "idle" THEN "updateManifest" ELSE "updateManifestAgain"
            /\ args' = [listing |-> listing, before |-> manifest, first |-> result]
            /\ result' = out
            /\ manifest' = IF out.written THEN out.value ELSE manifest
    /\ UNCHANGED <<releases, latest>>

\* updateManifest() of the later manifest.ts, for the first time or once more
CallUpdateManifestInline ==
    /\ op \in {"idle", "updateManifestInline"}
    /\ \E listing \in (IF op = "idle" THEN Listings ELSE {args.listing}) :
        LET out == updateManifestInline(Listed(listing), latest)
        IN  /\ op' = IF op = "idle" THEN "updateManifestInline"
                     ELSE "updateManifestInlineAgain"
            /\ args' = [listing |-> listing, before |-> manifest, first |-> result]
            /\ result' = out
            /\ manifest' = out.value
    /\ UNCHANGED <<releases, latest>>

NextRebuild ==
    \/ CallUpdateManifest
    \/ CallUpdateManifestInline

SpecRebuild == InitRebuild /\ [][NextRebuild]_vars

\* the key of an entry; the entries of the later manifest.ts have no variant
KeyOf(e) ==
    <<e.platform, e.architecture, e.version,
      IF "debug" \in DOMAIN e THEN e.debug ELSE FALSE>>

RebuildOps ==
    {"updateManifest", "updateManifestInline", "updateManifestAgain",
     "updateManifestInlineAgain"}

\* C11: after a rebuild the manifest holds no two entries with the same
\* (platform, architecture, version, variant) key.
C11_NoDuplicateKeys ==
    (op \in RebuildOps /\ result.written) =>
        \A i, j \in 1..Len(manifest) : KeyOf(manifest[i]) = KeyOf(manifest[j]) => i = j

\* C12: a request for an exact version (MAJOR.MINOR.PATCH) resolves only to
\* an entry whose stored version equals the requested string, never to an
\* entry whose version merely starts with it.
C12_ExactVersionOnly ==
    (op = "getManifestEntry" /\ isVersionTag(args.version) /\ result.ok) =>
        result.value.version = args.version

WellFormedPrimary(name) ==
    getMetadata(name).ok /\ getVersionFromAssetName(name).ok

\* a name that is neither a well-formed primary asset nor a companion
Malformed(name) == ~WellFormedPrimary(name) /\ ~StartsWith(name, <<"zstd-">>)

\* the listed releases without their malformed assets
WithoutMalformed(listed) ==
    [i \in 1..Len(listed) |->
        [listed[i] EXCEPT !.assets = SelectSeq(@, LAMBDA a : ~Malformed(a.name))]]

\* the warnings a rebuild owes: one for every asset that fits the primary
\* pattern and has no version in its name
OwedWarnings(listed) ==
    UNION {{Skipping(listed[i].assets[k],
                     getVersionFromAssetName(listed[i].assets[k].name).message) :
               k \in {k \in 1..Len(listed[i].assets) :
                         /\ getMetadata(listed[i].assets[k].name).ok
                         /\ ~getVersionFromAssetName(listed[i].assets[k].name).ok}} :
           i \in 1..Len(listed)}

\* C14: a malformed asset never aborts the rebuild: the manifest is written,
\* it is the one the rebuild writes for the same releases without the
\* malformed assets (every other asset is recorded as it would have been),
\* and an asset of the primary pattern without a version gets a warning.
C14_MalformedAssetAbsorbed ==
    (op \in RebuildOps) =>
        /\ result.written
        /\ result.value =
              (IF op \in {"updateManifest", "updateManifestAgain"}
               THEN updateManifest(WithoutMalformed(Listed(args.listing)), latest)
               ELSE updateManifestInline(WithoutMalformed(Listed(args.listing)),
                                         latest)).value
        /\ \A w \in OwedWarnings(Listed(args.listing)) :
              \E k \in 1..Len(result.warnings) : result.warnings[k] = w

\* the same for the later updateManifest alone
C14_InlineAbsorbs ==
    (op \in {"updateManifestInline", "updateManifestInlineAgain"}) =>
        C14_MalformedAssetAbsorbed

\* C15: every error raised at a step of run() ends the invocation in
\* setFailed with the message of the error: an invocation that holds an
\* error is on its way to the catch or has reported that message, and none
\* ends otherwise.
C15_ErrorsReachSetFailed ==
    (op = "run" /\ ~result.error.ok) =>
        /\ result.pc \in {"threw", "failed"}
        /\ result.pc = "failed" => result.failed = result.error.message

\* the same for the entry point that awaits run(): what its catch reports is
\* the message of the error run() threw
C15_CatchReports ==
    (op = "run" /\ result.pc = "failed") =>
        /\ ~result.error.ok
        /\ result.failed = result.error.message
        /\ result.effects = <<>>

\* C16: the three environment effects (PATH, LLVM_DIR, MLIR_DIR) are made
\* together and only by an invocation that resolved the companion and the
\* primary archive, requested both downloads in that order and went through
\* the extraction without an error; an invocation that failed has made none.
C16_EffectsOnlyAfterSuccess ==
    (op = "run") =>
        /\ result.effects \in {<<>>, ExportEffects}
        /\ result.effects # <<>> =>
              /\ result.pc = "done"
              /\ result.error.ok
              /\ result.failed = <<>>
              /\ result.zstd # NoValue
              /\ result.mlir # NoValue
              /\ \E i, j \in 1..Len(result.net) :
                    /\ i < j
                    /\ result.net[i] = Download(result.zstd.url)
                    /\ result.net[j] = Download(result.mlir.url)
        /\ (~result.error.ok \/ result.pc # "done") => result.effects = <<>>

\* an invocation that went through every step and made the three effects
C16_Witness ==
    /\ op = "run"
    /\ result.pc = "done"
    /\ result.effects = ExportEffects
    /\ Len(result.net) >= 2

\* line 163-165 of run(): the platform is windows, or host on a Windows process
IsWindowsRequest(inputs) ==
    \/ inputs.platform = <<"windows">>
    \/ inputs.platform = <<"host">> /\ inputs.proc.platform = "win32"

DebugMessage == <<"Debug builds are only available on Windows.">>

\* C17: with debug = true and a platform that is not windows (nor host on a
\* Windows process) run() throws 'Debug builds are only available on
\* Windows.' before it looks anything up or requests anything; with windows,
\* or host on Windows, no invocation ends with that error.
C17_DebugOnlyOnWindows ==
    (op = "run") =>
        /\ (args.debug /\ ~IsWindowsRequest(args)) =>
              /\ result.pc \in {"threw", "failed"}
              /\ ~result.error.ok
              /\ result.error.message = DebugMessage
              /\ result.lookups = <<>>
              /\ result.net = <<>>
              /\ result.effects = <<>>
              /\ result.pc = "failed" => result.failed = DebugMessage
        /\ (~args.debug \/ IsWindowsRequest(args)) =>
              (result.error.ok \/ result.error.message # DebugMessage)

\* a debug request for linux that was rejected and reported
C17_Witness ==
    /\ op = "run"
    /\ args.debug
    /\ args.platform = <<"linux">>
    /\ result.pc = "failed"
    /\ result.failed = DebugMessage
    /\ result.net = <<>>

\* the fields every entry has are there and not empty
HasRequiredFields(e) ==
    /\ {"architecture", "asset_name", "download_url", "platform", "release_url", "tag",
         "version"} \subseteq DOMAIN e
    /\ e.architecture # <<>>
    /\ e.asset_name # <<>>
    /\ e.download_url.tag # <<>> /\ e.download_url.name # <<>>
    /\ e.platform # <<>>
    /\ e.release_url.release # <<>>
    /\ e.tag # <<>>
    /\ e.version # <<>>

OpenBracket == [bracket |-> "["]

CloseBracket == [bracket |-> "]"]

\* JSON.stringify(manifest, null, 2) + "\n"
Stringify(m) == <<OpenBracket>> \o m \o <<CloseBracket>>

\* JSON.parse(fileContent): a text that does not end its array is no JSON
Parse(text) ==
    IF /\ Len(text) >= 2
       /\ text[1] = OpenBracket
       /\ text[Len(text)] = CloseBracket
       /\ \A i \in 2..(Len(text) - 1) : text[i] \notin {OpenBracket, CloseBracket}
    THEN Ok(SubSeq(text, 2, Len(text) - 1))
    ELSE Throw("SyntaxError", <<"Unexpected end of JSON input">>)

\* the release histories of the rebuild that runs next to the lookup
ConcurrentSources ==
    {rs \in RebuildSources : rs[T2].assets \in {<<>>, <<Asset(T2, PrimaryLinux)>>}}

NotRead == [pc |-> "idle", text |-> <<>>, entry |-> NoError]

InitConcurrent ==
    /\ manifest \in {Stringify(m) : m \in StaleManifests}
    /\ releases \in ConcurrentSources
    /\ latest = T2
    /\ op = "idle"
    /\ args = [doc |-> <<>>, before |-> <<>>]
    /\ result = NotRead

\* fs.writeFile(MANIFEST_FILE, ...) opens the file with flag "w", which
\* truncates it, before it writes
WriteOpen ==
    /\ op = "idle"
    /\ \E listing \in Listings :
        LET out == updateManifest(Listed(listing), latest)
        IN  /\ out.written
            /\ op' = "writing"
            /\ args' = [doc |-> Stringify(out.value), before |-> manifest]
            /\ manifest' = <<>>
    /\ UNCHANGED <<releases, latest, result>>

\* one write of the loop of fs.writeFile: some of what is left goes to the file
WriteChunk ==
    /\ op = "writing"
    /\ \E n \in (Len(manifest) + 1)..Len(args.doc) :
        /\ manifest' = SubSeq(args.doc, 1, n)
        /\ op' = IF n = Len(args.doc) THEN "written" ELSE "writing"
    /\ UNCHANGED <<releases, latest, args, result>>

\* getManifestEntry: fs.readFile, JSON.parse, manifest.find
ReadManifest ==
    /\ result.pc = "idle"
    /\ LET parsed == Parse(manifest)
       IN  result' = [pc |-> "read", text |-> manifest,
                      entry |-> IF parsed.ok
                                THEN getManifestEntry(parsed.value, V2118, <<"linux">>,
                                                      <<"X86">>, FALSE)
                                ELSE parsed]
    /\ UNCHANGED <<manifest, releases, latest, op, args>>

NextConcurrent ==
    \/ WriteOpen
    \/ WriteChunk
    \/ ReadManifest

SpecConcurrent == InitConcurrent /\ [][NextConcurrent]_vars

\* C19: a lookup next to a rebuild reads the complete previous manifest or
\* the complete new one, never a partially written document.
C19_NoPartialRead ==
    (result.pc = "read") =>
        \/ op = "idle" /\ result.text = manifest
        \/ op # "idle" /\ result.text \in {args.before, args.doc}

\* the date in created_at as a number: year, month and day
DigitValue(c) ==
    CASE c = "0" -> 0 [] c = "1" -> 1 [] c = "2" -> 2 [] c = "3" -> 3 [] c = "4" -> 4
      [] c = "5" -> 5 [] c = "6" -> 6 [] c = "7" -> 7 [] c = "8" -> 8 [] c = "9" -> 9

CreatedOn(tag) ==
    LET d == releases[tag].created_at
    IN  (((DigitValue(d[1]) * 10 + DigitValue(d[2])) * 10 + DigitValue(d[3])) * 10
            + DigitValue(d[4])) * 10000
          + (DigitValue(d[6]) * 10 + DigitValue(d[7])) * 100
          + DigitValue(d[9]) * 10 + DigitValue(d[10])

\* the alphabetical place of a platform and of an architecture
PlatformPlace(p) ==
    CASE p = <<"linux">> -> 1 [] p = <<"macos">> -> 2 [] p = <<"windows">> -> 3

ArchitecturePlace(a) == CASE a = <<"aarch64">> -> 1 [] a = <<"x86">> -> 2

ZstdOfEntryOfManifestTs(env, entry, platform, architecture, looked) ==
    IF ~env.releases[entry.tag].exists
    THEN Outcome(Throw("RequestError", <<"Not Found">>), looked, <<ByTag(entry.tag)>>)
    ELSE
    LET newest == env.releases[env.latest].assets
        j      == getZstdAsset(newest, platform, architecture)
    IN  IF j # 0
        THEN Outcome(Ok([url |-> newest[j].browser_download_url, name |-> newest[j].name]),
                     looked, <<ByTag(entry.tag), Latest>>)
        ELSE Outcome(Throw("NoZstd",
                           <<"No zstd binary found for ">> \o architecture
                             \o <<" ">> \o platform \o <<".">>),
                     looked, <<ByTag(entry.tag), Latest>>)

getZstdUrlOfManifestTs(env, version, platform, architecture) ==
    LET p == getPlatform(platform, env.proc)
        a == getArchitecture(architecture, env.proc)
    IN  IF ~p.ok THEN Outcome(p, <<>>, <<>>)
        ELSE IF ~a.ok THEN Outcome(a, <<>>, <<>>)
        ELSE LET e == getManifestEntry(env.manifest, version, p.value, a.value, FALSE)
                 looked == <<LookupOf(version, p.value, a.value, FALSE)>>
             IN  IF ~e.ok THEN Outcome(e, looked, <<>>)
                 ELSE ZstdOfEntryOfManifestTs(env, e.value, p.value, a.value, looked)

CallGetZstdUrlOfManifestTs ==
    /\ op = "idle"
    /\ \E v \in ReqVersions, p \in ReqPlatforms, a \in ReqArchitectures, proc \in Procs :
        /\ op' = "getZstdUrlOfManifestTs"
        /\ args' = [version |-> v, platform |-> p, architecture |-> a, debug |-> FALSE,
                    proc |-> proc]
        /\ result' = getZstdUrlOfManifestTs(Env(proc), v, p, a)
    /\ UNCHANGED <<manifest, releases, latest>>

NextCompanion ==
    \/ CallGetZstdUrl
    \/ CallGetZstdUrlOfManifestTs

SpecCompanion == Init /\ [][NextCompanion]_vars

\* a call of either getZstdUrl that found its manifest entry and the
\* release the entry names
CompanionCall ==
    /\ op \in {"getZstdUrl", "getZstdUrlOfManifestTs"}
    /\ ValidRequest(args)
    /\ QualifyingFor(args) # {}
    /\ isDateTag(MatchedTag)
    /\ releases[MatchedTag].exists

\* C21: getZstdUrl asks for the matched entry's own release, by its tag,
\* first; if that release holds a matching companion asset, that asset is
\* returned and the latest release is not asked; the latest release is
\* asked only when the entry's own release holds no matching companion.
C21_OwnReleaseFirst ==
    CompanionCall =>
        /\ result.net # <<>> /\ result.net[1] = ByTag(MatchedTag)
        /\ CompanionsIn(MatchedTag, args) # {} =>
              LET c == releases[MatchedTag].assets[First(CompanionsIn(MatchedTag, args))]
              IN  /\ result.ok
                  /\ result.value = [url |-> c.browser_download_url, name |-> c.name]
                  /\ result.net = <<ByTag(MatchedTag)>>
        /\ (\E k \in 1..Len(result.net) : result.net[k] = Latest) =>
              CompanionsIn(MatchedTag, args) = {}

\* C21, of getZstdUrl of utils/download.ts alone
C21_DownloadTsOwnReleaseFirst ==
    op = "getZstdUrl" => C21_OwnReleaseFirst


(***************************************************************************)
(* Lookups in the manifest a rebuild has written                           *)
(***************************************************************************)
\* getManifestEntry of the later download.ts: the version is lower-cased,
\* platform and architecture are what getPlatform and getArchitecture of its
\* platform.ts return, and no entry has a variant
FindEntryInline(m, version, platform, architecture) ==
    LET hits == {i \in 1..Len(m) :
                    /\ StartsWith(m[i].version, ToLowerCase(version))
                    /\ m[i].platform = platform
                    /\ m[i].architecture = architecture}
    IN  IF hits = {} THEN 0 ELSE CHOOSE i \in hits : \A j \in hits : i <= j

getManifestEntryInline(m, version, platform, architecture) ==
    LET i == FindEntryInline(m, version, platform, architecture)
    IN  IF i = 0
        THEN Throw("NoArchive",
                   <<"No ">> \o architecture \o <<" ">> \o platform
                     \o <<" archive found for LLVM ">> \o ToLowerCase(version) \o <<".">>)
        ELSE Ok(m[i])

HashPrefix == <<"f", "8", "c", "b", "7", "9", "8">>

HashPrefixUpper == <<"F", "8", "C", "B", "7", "9", "8">>

\* the versions asked for once the manifest is rebuilt
RebuiltVersions == {V2118, HashPrefix, HashPrefixUpper}

\* the canonical platforms and architectures of the later platform.ts,
\* which are the lower-cased ones the manifest stores
InlinePlatforms == {<<"linux">>, <<"macos">>, <<"windows">>}

InlineArchitectures == {<<"x86">>, <<"aarch64">>}

\* getManifestEntry of download.ts on the manifest updateManifest wrote
CallGetManifestEntryRebuilt ==
    /\ op = "updateManifest"
    /\ result.written
    /\ \E v \in RebuiltVersions, p \in NormalPlatforms, a \in NormalArchitectures,
          d \in BOOLEAN :
        /\ op' = "getManifestEntry"
        /\ args' = [version |-> v, platform |-> p, architecture |-> a, debug |-> d]
        /\ result' = getManifestEntry(manifest, v, p, a, d)
    /\ UNCHANGED <<manifest, releases, latest>>

\* getManifestEntry of the later download.ts on the manifest the later
\* updateManifest wrote
CallGetManifestEntryInline ==
    /\ op = "updateManifestInline"
    /\ \E v \in RebuiltVersions, p \in InlinePlatforms, a \in InlineArchitectures :
        /\ op' = "getManifestEntryInline"
        /\ args' = [version |-> v, platform |-> p, architecture |-> a, debug |-> FALSE]
        /\ result' = getManifestEntryInline(manifest, v, p, a)
    /\ UNCHANGED <<manifest, releases, latest>>

NextRebuilt ==
    \/ CallUpdateManifest
    \/ CallUpdateManifestInline
    \/ CallGetManifestEntryRebuilt
    \/ CallGetManifestEntryInline

SpecRebuilt == InitRebuild /\ [][NextRebuilt]_vars

LookupOps == {"getManifestEntry", "getManifestEntryInline"}


\* the release created last
NewestRelease ==
    CHOOSE t \in RebuildTags :
        \A u \in RebuildTags : LocaleCompare(releases[u].created_at, releases[t].created_at) <= 0

\* the keys of the primary assets of a release, as updateManifest of
\* update-known-versions.ts reads them (every name of a written manifest
\* that starts with llvm-mlir could be read)
PrimaryKeys(tag) ==
    {KeyOf(ManifestEntryOf(tag, releases[tag].assets[i])) :
        i \in {i \in 1..Len(releases[tag].assets) :
                  StartsWith(releases[tag].assets[i].name, <<"llvm-mlir">>)}}

\* the same as the later updateManifest reads them
InlinePrimaryKeys(tag) ==
    {<<InlineKey(releases[tag].assets[i].name)[1], InlineKey(releases[tag].assets[i].name)[2],
       getVersionLowerCase(releases[tag].assets[i].name).value, FALSE>> :
        i \in {i \in 1..Len(releases[tag].assets) :
                  /\ InlineMatches(releases[tag].assets[i].name) # {}
                  /\ getVersionLowerCase(releases[tag].assets[i].name).ok}}

\* the request names the key: its platform, architecture and variant, and
\* its version or the beginning of it
RequestNames(r, k) ==
    /\ ToLowerCase(r.platform) = k[1]
    /\ ToLowerCase(r.architecture) = k[2]
    /\ IsPrefixOf(r.version, k[3])
    /\ r.debug = k[4]

\* a key both releases carry and the lookup was made for
CarriedByBoth ==
    IF op = "getManifestEntry"
    THEN \E k \in PrimaryKeys(T1) \cap PrimaryKeys(T2) : RequestNames(args, k)
    ELSE /\ op = "getManifestEntryInline"
         /\ \E k \in InlinePrimaryKeys(T1) \cap InlinePrimaryKeys(T2) : RequestNames(args, k)

PerPage == 100

MaxHistory == 201

Histories == {[i \in 1..n |-> i] : n \in 0..MaxHistory}

Min(a, b) == IF a <= b THEN a ELSE b

\* what "GET /releases" answers for per_page and page
ReleasesPage(history, page) ==
    SubSeq(history, (page - 1) * PerPage + 1, Min(page * PerPage, Len(history)))

InitListing ==
    /\ manifest = <<>>
    /\ releases \in Histories
    /\ latest = T2
    /\ op = "idle"
    /\ args = <<>>
    /\ result = <<>>

\* getReleases is called: releases = [], page = 1
CallGetReleases ==
    /\ op = "idle"
    /\ op' = "getReleases"
    /\ result' = [pc |-> "paging", page |-> 1, releases |-> <<>>, requests |-> 0]
    /\ UNCHANGED <<manifest, releases, latest, args>>

\* one turn of the while (true) loop: the request of a page, and the two
\* breaks
RequestPage ==
    /\ op = "getReleases"
    /\ result.pc = "paging"
    /\ LET data == ReleasesPage(releases, result.page)
       IN  result' =
             IF Len(data) = 0
             THEN [result EXCEPT !.pc = "done", !.requests = @ + 1]
             ELSE IF Len(data) < PerPage
             THEN [result EXCEPT !.pc = "done", !.requests = @ + 1,
                                 !.releases = @ \o data]
             ELSE [result EXCEPT !.page = @ + 1, !.requests = @ + 1,
                                 !.releases = @ \o data]
    /\ UNCHANGED <<manifest, releases, latest, op, args>>

\* run() of update-version-manifest.ts: one request with per_page: 100 and
\* no page, whose releases are all the rebuild looks at
CallRunOfUpdateVersionManifest ==
    /\ op = "idle"
    /\ op' = "run"
    /\ result' = [pc |-> "done", page |-> 1, releases |-> ReleasesPage(releases, 1),
                  requests |-> 1]
    /\ UNCHANGED <<manifest, releases, latest, args>>

NextListing ==
    \/ CallGetReleases
    \/ RequestPage
    \/ CallRunOfUpdateVersionManifest

SpecListing == InitListing /\ [][NextListing]_vars

\* C23: the listing the rebuild uses ends for every finite release history
\* and holds every release exactly once: pages of 100 are asked for in
\* ascending order up to the first page with fewer than 100 releases, so
\* the releases beyond the first 100 are looked at as well.
C23_EveryReleaseListed ==
    (op \in {"getReleases", "run"}) =>
        /\ result.requests <= Len(releases) \div PerPage + 1
        /\ result.pc = "done" => result.releases = releases

\* C23, of the loop of getReleases alone: the pages asked for are 1, 2, ...
\* without a gap, their number is bounded by the length of the history, and
\* what is collected is the history up to the page asked for next
C23_PagingListsEvery ==
    (op = "getReleases") =>
        /\ result.requests <= Len(releases) \div PerPage + 1
        /\ result.pc = "paging" =>
              /\ result.page = result.requests + 1
              /\ result.releases = SubSeq(releases, 1, result.requests * PerPage)
        /\ result.pc = "done" => result.releases = releases

\* the loop went beyond the first page and ended with the whole history
C23_PagingWitness ==
    /\ op = "getReleases"
    /\ result.pc = "done"
    /\ result.requests = 3
    /\ Len(result.releases) = 2 * PerPage


InlineOps == {"updateManifestInline", "updateManifestInlineAgain"}

\* C24: in the rebuild that records the companion in every entry, once a
\* version has been recorded from a newer release no primary asset of that
\* version from an older release is added: after the rebuild all entries of
\* one version carry the same release tag.
C24_OneTagPerVersion ==
    (op \in InlineOps) =>
        \A i, j \in 1..Len(manifest) :
            manifest[i].version = manifest[j].version => manifest[i].tag = manifest[j].tag


\* the versions the later updateManifest reads in a release
VersionsIn(tag) == {k[3] : k \in InlinePrimaryKeys(tag)}

\* C24, for a release history in which every release holds the primary
\* assets of a single version
C24_OneTagPerVersionOfUniformReleases ==
    (op \in InlineOps /\ \A t \in RebuildTags : Cardinality(VersionsIn(t)) <= 1) =>
        \A i, j \in 1..Len(manifest) :
            manifest[i].version = manifest[j].version => manifest[i].tag = manifest[j].tag


\* the companion an entry names is an asset of the release tag, and it is
\* the companion of the entry's platform and architecture
CompanionOfEntryIn(e, tag) ==
    \E k \in 1..Len(releases[tag].assets) :
        LET c == releases[tag].assets[k]
        IN  /\ c.name = e.zstd_asset_name
            /\ c.browser_download_url = e.zstd_download_url
            /\ StartsWith(c.name, <<"zstd-">>)
            /\ ZstdInfoMatches(c.name) # {}
            /\ PairOf(c.name, PreferredMatch(ZstdInfoMatches(c.name)))
                 = <<e.platform, e.architecture>>

\* C25: for every entry the rebuild with the companion in every entry
\* writes, zstd_asset_name and zstd_download_url identify a companion asset
\* attached to the release of the entry's primary asset, which matches the
\* entry's platform and architecture.
C25_CompanionOfSameRelease ==
    (op \in InlineOps) =>
        \A i \in 1..Len(manifest) : CompanionOfEntryIn(manifest[i], manifest[i].tag)

\* C25, without the release: the companion an entry names is an asset of
\* some listed release and matches the entry's platform and architecture
C25_CompanionOfSomeRelease ==
    (op \in InlineOps) =>
        \A i \in 1..Len(manifest) :
            \E t \in RebuildTags : CompanionOfEntryIn(manifest[i], t)


\* the release source as the resolver asks it, once the manifest is rebuilt
RebuiltEnv ==
    [manifest |-> manifest,
     releases |-> [t \in Tags |->
                      IF t \in RebuildTags
                      THEN [exists |-> TRUE, assets |-> releases[t].assets]
                      ELSE Deleted],
     latest   |-> latest,
     proc     |-> [platform |-> "linux", arch |-> "x64"]]

\* the platform and architecture inputs that name a stored platform and
\* architecture
PlatformInput(p) == IF p = <<"macos">> THEN <<"macOS">> ELSE p

ArchitectureInput(a) == IF a = <<"x86">> THEN <<"X86">> ELSE <<"AArch64">>

\* the assets of the release history, each with the tag of its release
HistoryAssets ==
    UNION {{[tag |-> t, asset |-> releases[t].assets[k]] :
               k \in 1..Len(releases[t].assets)} : t \in RebuildTags}

\* the primary assets a rebuild reads: the later updateManifest reads the
\* names its own pattern matches, which have no "_debug"
PrimaryAssets ==
    {x \in HistoryAssets :
        IF op \in InlineOps
        THEN InlineMatches(x.asset.name) # {} /\ getVersionLowerCase(x.asset.name).ok
        ELSE WellFormedPrimary(x.asset.name)}

\* no release holds a companion for the platform and architecture of name
NoCompanionFor(name) ==
    \A x \in HistoryAssets :
        \/ ~StartsWith(x.asset.name, <<"zstd-">>)
        \/ ZstdInfoMatches(x.asset.name) = {}
        \/ PairOf(x.asset.name, PreferredMatch(ZstdInfoMatches(x.asset.name)))
             # <<ToLowerCase(getMetadata(name).value.platform),
                 ToLowerCase(getMetadata(name).value.architecture)>>

\* the asset is recorded, the primary archive of its key resolves, and the
\* companion of its key is found missing when it is asked for
RecordedAndResolvable(x) ==
    LET meta    == getMetadata(x.asset.name).value
        version == getVersionFromAssetName(x.asset.name).value
        p       == PlatformInput(ToLowerCase(meta.platform))
        a       == ArchitectureInput(ToLowerCase(meta.architecture))
    IN  /\ \E i \in 1..Len(manifest) :
              manifest[i].asset_name = x.asset.name /\ manifest[i].tag = x.tag
        /\ IF op \in InlineOps
           THEN getManifestEntryInline(manifest, version, ToLowerCase(meta.platform),
                                       ToLowerCase(meta.architecture)).ok
           ELSE /\ getMLIRUrl(RebuiltEnv, version, p, a, meta.debug).ok
                /\ ~meta.debug => getZstdUrl(RebuiltEnv, version, p, a).kind = "NoZstd"

\* the rebuild did not fail, and every primary asset without a companion is
\* recorded and resolvable
CompanionNotOwed ==
    (\A x \in HistoryAssets : ~Malformed(x.asset.name)) =>
        /\ result.ok /\ result.written
        /\ \A x \in PrimaryAssets : NoCompanionFor(x.asset.name) => RecordedAndResolvable(x)

\* C26: a well-formed primary asset for whose platform and architecture no
\* companion is available when the manifest is rebuilt is recorded all the
\* same and the rebuild does not fail; resolving the primary archive of its
\* key succeeds afterwards, and the missing companion shows only as the
\* no-companion-found failure of resolving the companion.
C26_MissingCompanionNoError ==
    (op \in RebuildOps) => CompanionNotOwed

\* C26, of updateManifest of update-known-versions.ts alone
C26_KnownVersionsRecordsAll ==
    (op \in {"updateManifest", "updateManifestAgain"}) => CompanionNotOwed


\* the orders the entries of a manifest of n entries can be put in
Orders(n) == {f \in [1..n -> 1..n] : \A i, j \in 1..n : f[i] = f[j] => i = j}

Reordered(m, f) == [i \in 1..Len(m) |-> m[f[i]]]

\* the lookup of the state, made in the manifest m
LookupIn(m) ==
    IF op = "getManifestEntry"
    THEN getManifestEntry(m, args.version, args.platform, args.architecture, args.debug)
    ELSE getManifestEntryInline(m, args.version, args.platform, args.architecture)

\* C27: the lookup does not depend on the order of the manifest: for every
\* manifest a rebuild writes and every valid request it returns the same
\* entry, or the same not-found failure, however the entries are permuted.
C27_LookupIgnoresOrder ==
    (op \in LookupOps) =>
        \A f \in Orders(Len(manifest)) : LookupIn(Reordered(manifest, f)) = result

\* the entries of the manifest the request matches
MatchedEntries ==
    {i \in 1..Len(manifest) :
        IF op = "getManifestEntry"
        THEN EntryMatches(manifest[i], args.version, args.platform, args.architecture,
                          args.debug)
        ELSE /\ StartsWith(manifest[i].version, ToLowerCase(args.version))
             /\ manifest[i].platform = args.platform
             /\ manifest[i].architecture = args.architecture}

\* C27, for a request that at most one entry of the manifest matches
C27_SingleMatchIgnoresOrder ==
    (op \in LookupOps /\ Cardinality(MatchedEntries) <= 1) =>
        \A f \in Orders(Len(manifest)) : LookupIn(Reordered(manifest, f)) = result


(***************************************************************************)
(* The companion matcher on the assets of a release                        *)
(***************************************************************************)
MaxMatcherAssets == 2

ZstdUpperCase ==
    <<"ZSTD-", "1", ".", "5", ".", "7", "_", "Linux", "_", "x86", "_", "6", "4", "_",
      "x86", ".", "tar", ".", "gz">>

\* a name that is no archive name: "tar-gz" where "tar.gz" would be
ZstdLinuxX86Dash ==
    <<"zstd-", "1", ".", "5", ".", "7", "_", "linux", "_", "x86", "_", "6", "4", "_",
      "X86", ".", "tar", "-", "gz">>

\* the checksum file of a companion
ZstdLinuxX86Sum == ZstdLinuxX86 \o <<".", "sha256">>

MatcherNames ==
    {ZstdLinuxX86, ZstdLinuxArm, ZstdLinuxX86Zip, ZstdMacArm, ZstdWindowsX86,
     PrimaryLinux, ZstdUpperCase, ZstdLinuxX86Dash, ZstdLinuxX86Sum}

MatcherAssetLists ==
    UNION {[1..n -> {Asset(T1, name) : name \in MatcherNames}] : n \in 0..MaxMatcherAssets}

InitMatcher ==
    /\ manifest = <<>>
    /\ releases = [t \in Tags |-> IF t = T1 THEN [exists |-> TRUE, assets |-> <<>>]
                                            ELSE Deleted]
    /\ latest = T1
    /\ op = "idle"
    /\ args = <<>>
    /\ result = <<>>

\* getZstdAsset(release, platform, architecture) with the platform and the
\* architecture getZstdUrl passes
CallGetZstdAsset ==
    /\ op = "idle"
    /\ \E assets \in MatcherAssetLists, p \in NormalPlatforms, a \in NormalArchitectures :
        /\ op' = "getZstdAsset"
        /\ args' = [assets |-> assets, platform |-> p, architecture |-> a]
        /\ result' = LET i == getZstdAsset(assets, p, a)
                     IN  IF i = 0 THEN [found |-> FALSE, index |-> 0, asset |-> NoValue]
                         ELSE [found |-> TRUE, index |-> i, asset |-> assets[i]]
    /\ UNCHANGED <<manifest, releases, latest>>

NextMatcher == CallGetZstdAsset

SpecMatcher == InitMatcher /\ [][NextMatcher]_vars

\* [A-Za-z0-9._-]+ : a run of one symbol or more, none of them outside the class
IsToken(s) == s # <<>> /\ \A k \in 1..Len(s) : s[k] \notin NonClassSyms

\* the whole name is zstd-<toolVersion>_<platform>_<label>_<architecture>.<ext>,
\* letter case aside, with the extension ext
HasCompanionForm(name, platform, architecture, ext) ==
    \E u, w \in 1..Len(name) :
        /\ u < w
        /\ IsToken(SubSeq(name, 2, u - 1))
        /\ IsToken(SubSeq(name, u + Len(platform) + 2, w - 1))
        /\ ToLowerCase(name) =
             <<"zstd-">> \o ToLowerCase(SubSeq(name, 2, u - 1)) \o <<"_">>
               \o ToLowerCase(platform) \o <<"_">>
               \o ToLowerCase(SubSeq(name, u + Len(platform) + 2, w - 1)) \o <<"_">>
               \o ToLowerCase(architecture) \o <<".">> \o ext

ExtensionOf(platform) == IF platform = <<"windows">> THEN <<"zip">> ELSE TarGz

\* the assets of the call whose names have the companion form
Companions ==
    {i \in 1..Len(args.assets) :
        HasCompanionForm(args.assets[i].name, args.platform, args.architecture,
                         ExtensionOf(args.platform))}

\* C28: getZstdAsset returns the first asset of the release whose whole name
\* has the form zstd-<toolVersion>_<platform>_<label>_<architecture>.<ext>,
\* compared case-insensitively, ext being zip for windows and tar.gz for the
\* others; it returns no primary archive, no companion of another platform
\* or architecture or of the other extension, and nothing when no asset
\* qualifies.
C28_FirstCompanionOfForm ==
    (op = "getZstdAsset") =>
        IF Companions = {} THEN ~result.found
        ELSE result.found /\ result.index = First(Companions)

\* C28, the "." of tar.gz read as any one character: the names of that
\* form are the ones getZstdAsset takes for companions
CompanionsOrAlike ==
    {i \in 1..Len(args.assets) :
        \/ i \in Companions
        \/ /\ args.platform # <<"windows">>
           /\ \E c \in OneCharSyms :
                 HasCompanionForm(args.assets[i].name, args.platform, args.architecture,
                                  <<"tar", c, "gz">>)}

C28_FirstCompanionOrAlike ==
    (op = "getZstdAsset") =>
        /\ IF CompanionsOrAlike = {} THEN ~result.found
           ELSE result.found /\ result.index = First(CompanionsOrAlike)
        /\ result.found =>
              /\ StartsWith(ToLowerCase(result.asset.name), <<"zstd-">>)
              /\ Includes(ToLowerCase(result.asset.name),
                          <<"_">> \o ToLowerCase(args.platform) \o <<"_">>)
              /\ EndsWith(ToLowerCase(result.asset.name),
                          <<"_">> \o ToLowerCase(args.architecture) \o <<".", "zip">>)
                   = (args.platform = <<"windows">>)


\* the entries of the variant d that the request, or the inputs of run(),
\* qualify for once normalized
VariantEntries(r, version, d) == Qualifying(version, PlatformOf(r), ArchitectureOf(r), d)

\* run() got beyond its debug and version checks and beyond line 180
PastResolveZstd ==
    /\ op = "run"
    /\ ValidRequest(args)
    /\ runValidate(args, args.proc).ok
    /\ result.pc # "resolveZstd"

\* C29: getZstdUrl looks the manifest up with the variant false, always: it
\* fails with the no-archive-found error exactly when no non-debug entry
\* matches the version prefix, the platform and the architecture, whether a
\* debug entry for them exists or not; run() resolves the companion before
\* the primary archive, so a debug install fails at that step when the
\* manifest holds a debug entry only.
C29_CompanionOfReleaseVariant ==
    /\ (op = "getZstdUrl" /\ ValidRequest(args)) =>
          /\ result.lookups =
               <<LookupOf(args.version, PlatformOf(args), ArchitectureOf(args), FALSE)>>
          /\ (~result.ok /\ result.kind = "NoArchive")
               <=> VariantEntries(args, args.version, FALSE) = {}
          /\ result.kind = "NoArchive" => ~Includes(result.message, <<" (debug)">>)
    /\ (PastResolveZstd /\ args.debug /\ VariantEntries(args, args.llvm_version, FALSE) = {}) =>
          /\ result.pc \in {"threw", "failed"}
          /\ result.error.kind = "NoArchive"
          /\ result.lookups =
               <<LookupOf(args.llvm_version, PlatformOf(args), ArchitectureOf(args), FALSE)>>
          /\ result.net = <<>>
          /\ result.zstd = NoValue
          /\ result.mlir = NoValue

\* a debug install for which the manifest holds the debug entry and no
\* other failed when the companion was resolved
C29_Witness ==
    /\ PastResolveZstd
    /\ args.debug
    /\ VariantEntries(args, args.llvm_version, TRUE) # {}
    /\ VariantEntries(args, args.llvm_version, FALSE) = {}
    /\ result.pc = "failed"
    /\ result.error.kind = "NoArchive"
    /\ result.failed = result.error.message


\* the lookup of the state, made for the version v
LookupOfVersion(v) ==
    IF op = "getManifestEntry"
    THEN getManifestEntry(manifest, v, args.platform, args.architecture, args.debug)
    ELSE getManifestEntryInline(manifest, v, args.platform, args.architecture)

\* the lookup returned what the lookup for the lower-cased version returns
SameAsLowerCase ==
    LET lower == LookupOfVersion(ToLowerCase(args.version))
    IN  /\ result.ok = lower.ok
        /\ result.ok => result.value = lower.value

\* C30: commit hashes are matched without regard to letter case, end to
\* end: the rebuild stores them in lower case and the requested string is
\* lower-cased before the prefix comparison, so a request that differs from
\* the beginning of a stored hash in letter case only (as F8CB798, which
\* passes the version validation) resolves to the entry its lower-case form
\* resolves to.
C30_HashAnyCase ==
    (op \in LookupOps /\ validateVersion(args.version).ok /\ isCommitHash(args.version)) =>
        /\ \A i \in 1..Len(manifest) : manifest[i].version = ToLowerCase(manifest[i].version)
        /\ SameAsLowerCase

\* C30, of getManifestEntry of the later download.ts on the manifest of the
\* later updateManifest
C30_InlineHashAnyCase ==
    (op = "getManifestEntryInline" /\ validateVersion(args.version).ok
       /\ isCommitHash(args.version)) =>
        /\ \A i \in 1..Len(manifest) : manifest[i].version = ToLowerCase(manifest[i].version)
        /\ SameAsLowerCase

\* an upper-case request found the entry of the hash
C30_InlineWitness ==
    /\ op = "getManifestEntryInline"
    /\ args.version = HashPrefixUpper
    /\ result.ok
    /\ result.value.version = HashFull

=============================================================================
